---- MODULE Spec2Model ----
(***************************************************************************)
(* Market-scanner subsystem: the snapshot store (api/scanner/database.py), *)
(* the scan orchestrator (api/scanner/alpaca_scan.py) and the scheduler    *)
(* (api/scanner/scheduler.py).                                             *)
(*                                                                         *)
(* Four specifications share the module's variables:                       *)
(*   SpecDB    - ScannerDB.upsert_stock / bulk_upsert / log_scan           *)
(*   SpecBatch - AlpacaScanner._process_batch as a function of the         *)
(*               provider's responses                                      *)
(*   SpecScan  - AlpacaScanner.run_scan, step by step, over the store      *)
(*   Spec      - ScannerScheduler: loop thread, manual triggers, stop      *)
(*                                                                         *)
(* Python values are wrapped: None is <<>> and a value v is <<v>>, so that *)
(* a nullable column can be compared with either.  Decimal quantities that *)
(* the code rounds to two places are kept as integers in hundredths.       *)
(***************************************************************************)
EXTENDS Integers, Sequences, FiniteSets, Bags, TLC

VARIABLES
    \* ---- the store (database.py) ----
    stocks,          \* table stocks: a set of rows (records over StockCols)
    scan_metadata,   \* table scan_metadata: sequence of rows, id = index
    market_indicators, \* table market_indicators: sequence of rows, id = index
    now,             \* the wall clock read by datetime.now(timezone.utc)
    replaced,        \* ghost: symbols whose row an upsert has overwritten
    \* ---- one call of _process_batch (alpaca_scan.py) ----
    batchIn,         \* its arguments and the provider's responses (in SpecRetry
                     \* and SpecQuery: the arguments of the call followed there)
    batchOut,        \* NULL before the call, Some(results) after it
    \* ---- AlpacaScanner and one call of run_scan (alpaca_scan.py) ----
    cache,           \* _active_symbols_cache and _cache_time
    scan,            \* run_scan's position and local variables (two are ghosts:
                     \* persisted, the results whose bulk_upsert returned, and
                     \* snapAnswers, the provider's answers to the snapshot
                     \* request of each batch)
    requests,        \* ghost: the provider requests issued and the sleeps of
                     \* request_delay taken (endpoint "sleep"), in order
    atStart,         \* ghost: the store when run_scan was entered
    \* ---- ScannerScheduler (scheduler.py) ----
    _running,        \* self._running
    _thread,         \* self._thread: NULL, or Some(position of that loop thread)
    _last_scan,      \* self._last_scan: NULL or Some(time)
    _scan_in_progress, \* self._scan_in_progress
    orphans,         \* bag of the positions of earlier loop threads still alive
    workers,         \* bag of the positions of the trigger_scan_now threads alive
    caller,          \* where the caller of start() and stop() is
    returned,        \* what the last trigger_scan_now() returned
    scans,           \* ghost: the scans decided on so far
    outcome          \* ghost: how the _run_scan that ended last ended

storeVars == <<stocks, scan_metadata, market_indicators, now, replaced>>
batchVars == <<batchIn, batchOut>>
scanVars == <<cache, scan, requests, atStart>>
schedVars == <<_running, _thread, _last_scan, _scan_in_progress, orphans,
               workers, caller, returned, scans, outcome>>

vars == <<stocks, scan_metadata, market_indicators, now, replaced, batchIn, batchOut,
          cache, scan, requests, atStart,
          _running, _thread, _last_scan, _scan_in_progress, orphans,
          workers, caller, returned, scans, outcome>>

-----------------------------------------------------------------------------
(* Bounds *)

MaxClock == 2      \* the clock stops advancing here
BatchSize == 2     \* batch_size (200 in the code), scaled down
CacheTtl == 1      \* the hour an asset listing stays cached, in clock ticks
MaxLoops == 2      \* most loop threads alive at once
MaxScans == 2      \* most scans decided on in one behaviour of Spec
MaxSnapshots == 2  \* most indicator snapshots taken in one behaviour of SpecInd
RecursionLimit == 3 \* nested calls the interpreter allows (1000 by default), scaled down
MaxLimit == 3      \* largest limit a view is called with

-----------------------------------------------------------------------------
(* Python values *)

NULL == <<>>
Some(v) == <<v>>

\* dict.get(key): the value, or None when the key is absent
Get(data, key) == IF key \in DOMAIN data THEN data[key] ELSE NULL

\* truthiness of a flag value (None and False are falsy)
Truthy(x) == x # NULL /\ x[1] = TRUE

RECURSIVE SumSeq(_)
SumSeq(s) == IF s = <<>> THEN 0 ELSE Head(s) + SumSeq(Tail(s))

Last(s) == s[Len(s)]

-----------------------------------------------------------------------------
(* The store: database.py *)

\* columns bound from data.get(...) as they are
ValueCols ==
    {"symbol", "company_name", "price", "change_percent", "volume",
     "avg_volume_20d", "relative_volume", "market_cap", "market_cap_category",
     "sector", "industry", "week_52_high", "week_52_low",
     "distance_from_52w_high", "distance_from_52w_low"}

\* columns bound as 1 if data.get(...) else 0
FlagCols == {"is_unusual_volume", "is_near_high", "is_near_low"}

StockCols == ValueCols \cup FlagCols \cup {"last_updated"}

\* the parameter tuple of the INSERT OR REPLACE statement
UpsertParams(data, ts) ==
    [c \in StockCols |->
        IF c \in ValueCols THEN Get(data, c)
        ELSE IF c \in FlagCols THEN (IF Truthy(Get(data, c)) THEN Some(1) ELSE Some(0))
        ELSE ts]

\* a mutant: plain INSERT, the row with the same key stays
InsertKeepingOld(table, row) == table \cup {row}

\* INSERT OR REPLACE on PRIMARY KEY symbol (a NULL key conflicts with nothing)
InsertOrReplace(table, row) ==
    {r \in table : r.symbol = NULL \/ r.symbol # row.symbol} \cup {row}

RECURSIVE BulkRowsFromEmpty(_, _, _)
\* a mutant: the table is emptied before the rows are written
BulkRowsFromEmpty(table, list, tss) ==
    IF list = <<>> THEN {}
    ELSE InsertOrReplace(BulkRowsFromEmpty(table, SubSeq(list, 1, Len(list) - 1), tss),
                         UpsertParams(list[Len(list)], tss[Len(list)]))

\* the rows of bulk_upsert's loop, each with its own clock reading
RECURSIVE BulkRows(_, _, _)
BulkRows(table, list, tss) ==
    IF list = <<>> THEN table
    ELSE BulkRows(InsertOrReplace(table, UpsertParams(Head(list), Head(tss))),
                  Tail(list), Tail(tss))

\* clock readings of n successive datetime.now() calls: the clock never runs
\* backwards, and may not have advanced between two calls (longer waits
\* are separate ticks of the clock)
ClockAfter == {t \in {now, now + 1} : t <= MaxClock}

ClockReadings(n) ==
    {tss \in [1..n -> ClockAfter] :
        \A i \in 1..n : \A j \in 1..n : i <= j => tss[i] <= tss[j]}

HasRow(table, sym) == \E r \in table : r.symbol = Some(sym)
RowOf(table, sym) == CHOOSE r \in table : r.symbol = Some(sym)
SymbolsIn(list) == {Get(list[i], "symbol")[1] : i \in 1..Len(list)}

\* ScannerDB.upsert_stock(data)
upsert_stock(data) ==
    \E ts \in ClockAfter :
        /\ stocks' = InsertOrReplace(stocks, UpsertParams(data, ts))
        /\ now' = ts
        /\ replaced' = replaced \cup
                {s \in SymbolsIn(<<data>>) : HasRow(stocks, s)}
        /\ UNCHANGED <<scan_metadata, market_indicators>>

\* a mutant: nothing is written
BulkUpsertNothing(list) == list # <<>> /\ UNCHANGED storeVars

\* ScannerDB.bulk_upsert(stocks)
bulk_upsert(list) ==
    /\ list # <<>>
    /\ \E tss \in ClockReadings(Len(list)) :
        /\ stocks' = BulkRows(stocks, list, tss)
        /\ now' = tss[Len(list)]
    /\ replaced' = replaced \cup
            {s \in SymbolsIn(list) :
                \/ HasRow(stocks, s)
                \/ Cardinality({i \in 1..Len(list) : Get(list[i], "symbol") = Some(s)}) > 1}
    /\ UNCHANGED <<scan_metadata, market_indicators>>

\* the row log_scan inserts
ScanRow(scan_type, started_at, completed_at, stocks_scanned, stocks_with_data) ==
    [scan_type |-> scan_type, started_at |-> started_at,
     completed_at |-> completed_at, stocks_scanned |-> stocks_scanned,
     stocks_with_data |-> stocks_with_data,
     duration_seconds |-> completed_at - started_at]

\* a mutant: the row is inserted twice
LogScanTwice(scan_type, started_at, completed_at, stocks_scanned, stocks_with_data) ==
    /\ scan_metadata' = scan_metadata \o
            <<ScanRow(scan_type, started_at, completed_at, stocks_scanned, stocks_with_data),
              ScanRow(scan_type, started_at, completed_at, stocks_scanned, stocks_with_data)>>
    /\ UNCHANGED <<stocks, market_indicators, now, replaced>>

\* ScannerDB.log_scan(...)
log_scan(scan_type, started_at, completed_at, stocks_scanned, stocks_with_data) ==
    /\ scan_metadata' = Append(scan_metadata,
            ScanRow(scan_type, started_at, completed_at, stocks_scanned, stocks_with_data))
    /\ UNCHANGED <<stocks, market_indicators, now, replaced>>

-----------------------------------------------------------------------------
(* SpecDB: the store's write operations on arbitrary dicts *)

DbSymbols == {"AAA", "BBB"}

\* the dicts handed to upsert: one complete, one with columns absent
Datas ==
    UNION {{
        [symbol |-> Some(s), price |-> Some(1000), volume |-> Some(5),
         sector |-> NULL, is_unusual_volume |-> Some(TRUE),
         is_near_high |-> Some(FALSE), is_near_low |-> Some(TRUE)],
        [symbol |-> Some(s), volume |-> Some(9)]
      } : s \in DbSymbols}

\* the lists handed to bulk_upsert: one dict, or two (the same symbol twice included)
DataLists == {<<a>> : a \in Datas} \cup {<<a, b>> : a \in Datas, b \in Datas}

InitStore ==
    /\ stocks = {}
    /\ scan_metadata = <<>>
    /\ now = 0
    /\ replaced = {}
    /\ market_indicators = <<>>

DbUpsertStock == (\E d \in Datas : upsert_stock(d)) /\ UNCHANGED <<batchVars, scanVars, schedVars>>

DbBulkUpsert == (\E list \in DataLists : bulk_upsert(list)) /\ UNCHANGED <<batchVars, scanVars, schedVars>>

DbTick ==
    /\ now < MaxClock
    /\ now' = now + 1
    /\ UNCHANGED <<stocks, scan_metadata, market_indicators, replaced, batchVars, scanVars,
                   schedVars>>

InitScanIdle ==
    /\ cache = [symbols |-> NULL, time |-> NULL]
    /\ scan = [pc |-> "idle"]
    /\ requests = <<>>
    /\ atStart = NULL

InitBatchIdle == batchIn = NULL /\ batchOut = NULL

\* ScannerScheduler.__init__
InitSched ==
    /\ _running = FALSE
    /\ _thread = NULL
    /\ _last_scan = NULL
    /\ _scan_in_progress = FALSE
    /\ orphans = EmptyBag
    /\ workers = EmptyBag
    /\ caller = "idle"
    /\ returned = NULL
    /\ scans = 0
    /\ outcome = NULL

InitDB == InitStore /\ InitBatchIdle /\ InitScanIdle /\ InitSched

NextDB == DbUpsertStock \/ DbBulkUpsert \/ DbTick

SpecDB == InitDB /\ [][NextDB]_vars

-----------------------------------------------------------------------------
(* Claims about the store *)

\* what SQLite holds for a bound Python value of a flag column: True is 1
SqlFlag(x) == IF x = NULL THEN NULL ELSE IF x[1] = TRUE THEN Some(1) ELSE Some(0)

\* the dict of the last upsert of symbol s in a list
LastDataFor(list, s) ==
    list[CHOOSE i \in 1..Len(list) :
            /\ Get(list[i], "symbol") = Some(s)
            /\ \A j \in (i + 1)..Len(list) : Get(list[j], "symbol") # Some(s)]

\* symbol s is upserted a second time by the step that upserts list
SecondUpsert(list, s) ==
    /\ s \in SymbolsIn(list)
    /\ \/ HasRow(stocks, s)
       \/ Cardinality({i \in 1..Len(list) : Get(list[i], "symbol") = Some(s)}) > 1

OneRowWith(s, d, flagOf(_), later(_, _)) ==
    /\ Cardinality({r \in stocks' : r.symbol = Some(s)}) = 1
    /\ \A r \in stocks' : r.symbol = Some(s) =>
        /\ \A c \in ValueCols : r[c] = Get(d, c)
        /\ \A c \in FlagCols : r[c] = flagOf(Get(d, c))
        /\ HasRow(stocks, s) => later(r.last_updated, RowOf(stocks, s).last_updated)

AmendedFlag(x) == IF x # NULL /\ x[1] = TRUE THEN Some(1) ELSE Some(0)
NotEarlier(a, b) == a >= b
StrictlyLater(a, b) == a > b

\* C7 (as amended): upsert is last-write-wins keyed by symbol. After a second
\* upsert of a symbol (by upsert_stock, or by bulk_upsert, whose list may hold
\* the symbol twice) the table holds exactly one row for it; every value
\* column equals the last upsert's value, null when absent from it; a flag
\* column is 1 when the last upsert's value is true and 0 otherwise, also
\* when absent; and last_updated is not smaller than before.
C7_LastWriteWins ==
    [][/\ \A d \in Datas : upsert_stock(d) =>
            \A s \in DbSymbols : SecondUpsert(<<d>>, s) =>
                OneRowWith(s, d, AmendedFlag, NotEarlier)
       /\ \A list \in DataLists : bulk_upsert(list) =>
            \A s \in DbSymbols : SecondUpsert(list, s) =>
                OneRowWith(s, LastDataFor(list, s), AmendedFlag, NotEarlier)]_vars

\* C7 witness: the row of AAA has been overwritten by an upsert that left
\* price and the flags out
C7_Witness ==
    /\ "AAA" \in replaced
    /\ HasRow(stocks, "AAA")
    /\ RowOf(stocks, "AAA").price = NULL
    /\ RowOf(stocks, "AAA").is_unusual_volume = Some(0)

\* C7 as stated: every column absent from the second upsert becomes null and
\* last_updated strictly increases
C7_Original ==
    [][/\ \A d \in Datas : upsert_stock(d) =>
            \A s \in DbSymbols : SecondUpsert(<<d>>, s) =>
                OneRowWith(s, d, SqlFlag, StrictlyLater)
       /\ \A list \in DataLists : bulk_upsert(list) =>
            \A s \in DbSymbols : SecondUpsert(list, s) =>
                OneRowWith(s, LastDataFor(list, s), SqlFlag, StrictlyLater)]_vars

-----------------------------------------------------------------------------
(* Arithmetic of _process_batch.  A quotient n/d (d > 0) is kept exact and  *)
(* rounded where the code rounds: round() rounds half to even.             *)

\* round(n/d) as an integer
RoundInt(n, d) ==
    LET q == n \div d
        r == n % d
    IN  IF 2 * r < d THEN q
        ELSE IF 2 * r > d THEN q + 1
        ELSE IF q % 2 = 0 THEN q ELSE q + 1

\* round(n/d, 2) in hundredths
Round2(n, d) == RoundInt(100 * n, d)

RECURSIVE MaxOf(_)
MaxOf(s) == IF Len(s) = 1 THEN s[1]
            ELSE LET m == MaxOf(Tail(s)) IN IF s[1] >= m THEN s[1] ELSE m

RECURSIVE MinOf(_)
MinOf(s) == IF Len(s) = 1 THEN s[1]
            ELSE LET m == MinOf(Tail(s)) IN IF s[1] <= m THEN s[1] ELSE m

\* a number or None is falsy when None or zero; a dict when None or empty
Falsy(x) == x = NULL \/ x[1] = 0
EmptyDict == <<>>

\* dict.get(key, default)
GetOr(data, key, default) == IF key \in DOMAIN data THEN data[key] ELSE default

-----------------------------------------------------------------------------
(* The provider client: alpaca_scan.py _get_snapshots / _get_bars_bulk.    *)
(* resps is what the provider answers to the successive attempts of one    *)
(* request: [kind |-> "exception"] or [kind |-> "http", status, body].     *)

\* Each retry is a nested call made inside the try block, so the attempt
\* that would exceed the interpreter's recursion limit raises RecursionError,
\* which except Exception turns into {}.  depth is the number of nested calls.

RECURSIVE SnapshotsAt(_, _)
SnapshotsAt(resps, depth) ==
    IF depth > RecursionLimit THEN EmptyDict
    ELSE LET r == Head(resps) IN
         IF r.kind = "exception" THEN EmptyDict
         ELSE IF r.status = 200 THEN r.body
         ELSE IF r.status = 429 THEN SnapshotsAt(Tail(resps), depth + 1)
         ELSE EmptyDict

_get_snapshots(resps) == SnapshotsAt(resps, 1)

RECURSIVE BarsAt(_, _)
BarsAt(resps, depth) ==
    IF depth > RecursionLimit THEN EmptyDict
    ELSE LET r == Head(resps) IN
         IF r.kind = "exception" THEN EmptyDict
         ELSE IF r.status = 200 THEN GetOr(r.body, "bars", EmptyDict)
         ELSE IF r.status = 429 THEN BarsAt(Tail(resps), depth + 1)
         ELSE IF r.status = 403 THEN EmptyDict
         ELSE EmptyDict

_get_bars_bulk(resps) == BarsAt(resps, 1)

rate_limit_wait == 60

RECURSIVE ClientEvents(_, _, _)
\* what one call of either method does besides returning: the requests it
\* issues and the sleeps it takes, in order
ClientEvents(symbols, resps, depth) ==
    IF depth > RecursionLimit THEN <<>>
    ELSE <<[event |-> "request", symbols |-> symbols]>> \o
         (IF Head(resps).kind = "http" /\ Head(resps).status = 429
          THEN <<[event |-> "sleep", seconds |-> rate_limit_wait]>>
                    \o ClientEvents(symbols, Tail(resps), depth + 1)
          ELSE <<>>)

-----------------------------------------------------------------------------
(* AlpacaScanner._process_batch, one symbol of the loop *)

\* a mutant: without bars the average stays 0 instead of today's volume
AvgVolumeNoFallback(symbol_bars, current_volume) ==
    IF Len(symbol_bars) > 1
    THEN LET volumes == [i \in 1..(Len(symbol_bars) - 1) |->
                            GetOr(symbol_bars[i], "v", Some(0))[1]]
         IN  <<SumSeq(volumes), Len(volumes)>>
    ELSE <<0, 1>>

\* avg_volume as a quotient <<n, d>>: the mean of the bars but the last when
\* there are two bars or more, else today's volume
AvgVolume(symbol_bars, current_volume) ==
    IF Len(symbol_bars) > 1
    THEN LET volumes == [i \in 1..(Len(symbol_bars) - 1) |->
                            GetOr(symbol_bars[i], "v", Some(0))[1]]
         IN  <<SumSeq(volumes), Len(volumes)>>
    ELSE <<current_volume, 1>>

\* a mutant: the zero-average guard returns the degraded 1.0
RelativeVolumeOneOnZero(current_volume, avg) ==
    IF avg[1] > 0 THEN <<current_volume * avg[2], avg[1]>> ELSE <<1, 1>>

\* relative_volume = current_volume / avg_volume if avg_volume > 0 else 0
RelativeVolume(current_volume, avg) ==
    IF avg[1] > 0 THEN <<current_volume * avg[2], avg[1]>> ELSE <<0, 1>>

RECURSIVE AllHighs(_)
\* [b.get("h", 0) for b in symbol_bars]
AllHighs(symbol_bars) ==
    IF symbol_bars = <<>> THEN <<>>
    ELSE <<GetOr(Head(symbol_bars), "h", Some(0))[1]>> \o AllHighs(Tail(symbol_bars))

RECURSIVE AllLows(_)
\* [b.get("l", inf) for b in symbol_bars if b.get("l")]
AllLows(symbol_bars) ==
    IF symbol_bars = <<>> THEN <<>>
    ELSE (IF Falsy(Get(Head(symbol_bars), "l")) THEN <<>>
          ELSE <<Head(symbol_bars)["l"][1]>>) \o AllLows(Tail(symbol_bars))

\* a mutant: near the high is within 10% of it
NearHighWithin10(dh_n, week_52_high) ==
    week_52_high # 0 /\ dh_n >= (-10) * week_52_high

\* dist_from_high is not None and dist_from_high >= -5, the distance being
\* dh_n / week_52_high
IsNearHigh(dh_n, week_52_high) ==
    week_52_high # 0 /\ dh_n >= (-5) * week_52_high

\* the dict appended to results for a symbol with usable data
ResultRow(symbol, asset, current_price, prev_close, current_volume, symbol_bars) ==
    LET avg_volume == AvgVolume(symbol_bars, current_volume)
        relative_volume == RelativeVolume(current_volume, avg_volume)
        all_highs == AllHighs(symbol_bars)
        all_lows == AllLows(symbol_bars)
        week_52_high == IF all_highs # <<>> THEN MaxOf(all_highs) ELSE current_price
        week_52_low == IF all_lows # <<>> THEN MinOf(all_lows) ELSE current_price
        \* (price - extreme) / extreme * 100, None when the extreme is 0
        high_ok == week_52_high # 0
        low_ok == week_52_low # 0
        dh_n == (current_price - week_52_high) * 100
        dl_n == (current_price - week_52_low) * 100
    IN  [symbol |-> Some(symbol),
         company_name |-> Get(asset, "name"),
         price |-> Some(Round2(current_price, 1)),
         change_percent |-> Some(Round2((current_price - prev_close) * 100, prev_close)),
         volume |-> Some(current_volume),
         avg_volume_20d |-> IF avg_volume[1] # 0
                            THEN Some(RoundInt(avg_volume[1], avg_volume[2])) ELSE NULL,
         relative_volume |-> Some(Round2(relative_volume[1], relative_volume[2])),
         market_cap |-> NULL,
         market_cap_category |-> Some("unknown"),
         sector |-> NULL,
         industry |-> NULL,
         week_52_high |-> IF high_ok THEN Some(Round2(week_52_high, 1)) ELSE NULL,
         week_52_low |-> IF low_ok THEN Some(Round2(week_52_low, 1)) ELSE NULL,
         distance_from_52w_high |-> IF high_ok /\ dh_n # 0
                                    THEN Some(Round2(dh_n, week_52_high)) ELSE NULL,
         distance_from_52w_low |-> IF low_ok /\ dl_n # 0
                                   THEN Some(Round2(dl_n, week_52_low)) ELSE NULL,
         is_unusual_volume |-> Some(relative_volume[1] >= 2 * relative_volume[2]),
         is_near_high |-> Some(IsNearHigh(dh_n, week_52_high)),
         is_near_low |-> Some(low_ok /\ dl_n <= 10 * week_52_low)]

\* a value that is a string where a dict is expected: its .get raises
\* AttributeError
IsStr(x) == "str" \in DOMAIN x

\* the body of the for loop: <<>> when the symbol is skipped (by continue, or
\* by the except clause after a raise), <<row>> otherwise
ProcessSymbol(symbol, asset_info, snapshots, bars) ==
    LET snap == Get(snapshots, symbol)
        daily == GetOr(snap, "dailyBar", EmptyDict)
        prev == GetOr(snap, "prevDailyBar", EmptyDict)
        latest == GetOr(snap, "latestTrade", EmptyDict)
        current_price == IF ~Falsy(Get(daily, "c")) THEN Get(daily, "c") ELSE Get(latest, "p")
        prev_close == Get(prev, "c")
        current_volume == GetOr(daily, "v", Some(0))
        symbol_bars == GetOr(bars, symbol, <<>>)
        asset == GetOr(asset_info, symbol, EmptyDict)
    IN  IF snap = EmptyDict THEN <<>>
        ELSE IF daily = EmptyDict \/ prev = EmptyDict THEN <<>>
        ELSE IF IsStr(daily) \/ IsStr(prev) THEN <<>>
        ELSE IF Falsy(current_price) \/ Falsy(prev_close) THEN <<>>
        ELSE <<ResultRow(symbol, asset, current_price[1], prev_close[1],
                         current_volume[1], symbol_bars)>>

RECURSIVE ProcessSymbolsAbort(_, _, _, _)
\* a mutant: the first symbol skipped ends the batch
ProcessSymbolsAbort(symbols, asset_info, snapshots, bars) ==
    IF symbols = <<>> THEN <<>>
    ELSE IF ProcessSymbol(Head(symbols), asset_info, snapshots, bars) = <<>> THEN <<>>
    ELSE ProcessSymbol(Head(symbols), asset_info, snapshots, bars)
            \o ProcessSymbolsAbort(Tail(symbols), asset_info, snapshots, bars)

RECURSIVE ProcessSymbols(_, _, _, _)
ProcessSymbols(symbols, asset_info, snapshots, bars) ==
    IF symbols = <<>> THEN <<>>
    ELSE ProcessSymbol(Head(symbols), asset_info, snapshots, bars)
            \o ProcessSymbols(Tail(symbols), asset_info, snapshots, bars)

\* AlpacaScanner._process_batch(symbols, asset_info), given what the provider
\* answers to the snapshot request and to the bars request
_process_batch(symbols, asset_info, snapResps, barsResps) ==
    LET snapshots == _get_snapshots(snapResps) IN
    IF snapshots = EmptyDict THEN <<>>
    ELSE ProcessSymbols(symbols, asset_info, snapshots, _get_bars_bulk(barsResps))

-----------------------------------------------------------------------------
(* SpecBatch: _process_batch over the provider's possible answers.         *)
(* Volumes are in units of 100,000 shares, prices in dollars.              *)

Http(status, body) == [kind |-> "http", status |-> status, body |-> body]
Failure == [kind |-> "exception"]

Bar(c, v) == [c |-> Some(c), v |-> Some(v)]

\* what the snapshot endpoint may hold for one symbol
Snaps ==
    {[dailyBar |-> Bar(110, 40), prevDailyBar |-> Bar(100, 10), latestTrade |-> [p |-> Some(110)]],
     [dailyBar |-> Bar(95, 2), prevDailyBar |-> Bar(100, 10), latestTrade |-> [p |-> Some(95)]],
     [dailyBar |-> Bar(110, 0), prevDailyBar |-> Bar(100, 10), latestTrade |-> [p |-> Some(110)]],
     [dailyBar |-> [c |-> Some(0)], prevDailyBar |-> Bar(100, 10), latestTrade |-> [p |-> Some(105)]],
     [dailyBar |-> Bar(110, 40), latestTrade |-> [p |-> Some(110)]],
     [dailyBar |-> Bar(110, 40), prevDailyBar |-> Bar(0, 10)],
     [dailyBar |-> Bar(110, 499), prevDailyBar |-> Bar(100, 10), latestTrade |-> [p |-> Some(110)]],
     [dailyBar |-> [str |-> "n/a"], prevDailyBar |-> Bar(100, 10), latestTrade |-> [p |-> Some(110)]]}

HistBar(v, h, l) == [v |-> Some(v), h |-> Some(h), l |-> Some(l)]

\* what the bars endpoint may hold for one symbol (today's bar is the last)
BarLists ==
    {<<>>,
     <<HistBar(40, 112, 108)>>,
     <<HistBar(10, 120, 90), HistBar(40, 112, 108)>>,
     <<HistBar(10, 120, 90), HistBar(31, 118, 0), HistBar(40, 110, 100)>>,
     <<HistBar(0, 120, 90), [h |-> Some(130)], HistBar(40, 112, 108)>>,
     <<HistBar(250, 120, 90), HistBar(499, 112, 108)>>}

BatchSymbols == {"AAA", "BBB"}

\* a response body keyed by the symbols the provider has data for
Bodies(perSymbol) ==
    UNION {[present -> perSymbol] : present \in SUBSET BatchSymbols}

SnapResps ==
    {<<Http(200, b)>> : b \in Bodies(Snaps)}
        \cup {<<Http(429, EmptyDict), Http(200, b)>> : b \in Bodies(Snaps)}
        \cup {<<Http(500, EmptyDict)>>, <<Failure>>}

BarsResps ==
    {<<Http(200, [bars |-> b])>> : b \in Bodies(BarLists)}
        \cup {<<Http(200, EmptyDict)>>, <<Http(403, EmptyDict)>>,
              <<Http(429, EmptyDict), Http(403, EmptyDict)>>,
              <<Http(500, EmptyDict)>>, <<Failure>>}

\* asset_info as _get_assets builds it: symbol -> asset
AssetInfo(symbols) == [s \in symbols |-> [name |-> Some(s), symbol |-> Some(s)]]

InitBatch ==
    /\ InitStore
    /\ InitScanIdle
    /\ InitSched
    /\ batchIn \in [symbols : {<<"AAA">>, <<"AAA", "BBB">>, <<"BBB", "BBB">>},
                    asset_info : {AssetInfo(BatchSymbols)},
                    snapResps : SnapResps,
                    barsResps : BarsResps]
    /\ batchOut = NULL

ProcessBatch ==
    /\ batchOut = NULL
    /\ batchOut' = Some(_process_batch(batchIn.symbols, batchIn.asset_info,
                                       batchIn.snapResps, batchIn.barsResps))
    /\ UNCHANGED <<batchIn, storeVars, scanVars, schedVars>>

NextBatch == ProcessBatch

SpecBatch == InitBatch /\ [][NextBatch]_vars

-----------------------------------------------------------------------------
(* Claims about _process_batch *)

Results == batchOut[1]

\* the bars request was denied or failed: its last answer is not a 200
LastResp(resps) ==
    CHOOSE i \in 1..Len(resps) :
        /\ resps[i].kind = "exception" \/ resps[i].status # 429
        /\ \A j \in 1..(i - 1) : resps[j].kind = "http" /\ resps[j].status = 429
BarsDenied ==
    LET r == batchIn.barsResps[LastResp(batchIn.barsResps)]
    IN  r.kind = "exception" \/ r.status # 200
SnapshotOk ==
    LET r == batchIn.snapResps[LastResp(batchIn.snapResps)]
    IN  r.kind = "http" /\ r.status = 200 /\ r.body # EmptyDict

\* the snapshot of a symbol has a daily bar, a previous bar, a price and a
\* previous close
Usable(body, sym) ==
    /\ sym \in DOMAIN body
    /\ "dailyBar" \in DOMAIN body[sym] => ~IsStr(body[sym].dailyBar)
    /\ "dailyBar" \in DOMAIN body[sym]
    /\ "prevDailyBar" \in DOMAIN body[sym]
    /\ \/ body[sym].dailyBar.c[1] # 0
       \/ "latestTrade" \in DOMAIN body[sym] /\ body[sym].latestTrade.p[1] # 0
    /\ body[sym].prevDailyBar.c[1] # 0

\* C9 (as amended): relative_volume is never computed by dividing by zero,
\* and whenever the average volume used is zero (stored as a null
\* avg_volume_20d) the resulting relative_volume is 0 and the row is not
\* flagged as unusual volume.
C9_ZeroAverage ==
    batchOut # NULL =>
        \A i \in 1..Len(Results) :
            LET r == Results[i]
                bars == _get_bars_bulk(batchIn.barsResps)
                avg == AvgVolume(GetOr(bars, r.symbol[1], <<>>), r.volume[1])
            IN  /\ avg[2] > 0
                /\ RelativeVolume(r.volume[1], avg)[2] > 0
                /\ (avg[1] = 0) <=> (r.avg_volume_20d = NULL)
                /\ r.avg_volume_20d = NULL =>
                        r.relative_volume = Some(0) /\ r.is_unusual_volume = Some(FALSE)

\* C9 witness: a row with today's volume positive and a zero average
C9_Witness ==
    /\ batchOut # NULL
    /\ \E i \in 1..Len(Results) :
            Results[i].avg_volume_20d = NULL /\ Results[i].volume[1] > 0

\* C9 as stated: with a zero average, relative_volume is 1.0 or the raw volume
C9_Original ==
    batchOut # NULL =>
        \A i \in 1..Len(Results) :
            Results[i].avg_volume_20d = NULL =>
                \/ Results[i].relative_volume = Some(100)
                \/ Results[i].relative_volume = Some(100 * Results[i].volume[1])

\* C10 (as amended): when the bars request is denied or fails while the
\* snapshot request succeeded, the batch yields a row for every symbol with a
\* usable snapshot; in each row with a positive volume avg_volume_20d is
\* today's volume and relative_volume is exactly 1.0; in each row with zero
\* volume avg_volume_20d is null and relative_volume is 0; is_unusual_volume
\* is false in all of them.
C10_BarsDenied ==
    (batchOut # NULL /\ BarsDenied /\ SnapshotOk) =>
        LET body == batchIn.snapResps[LastResp(batchIn.snapResps)].body
            syms == batchIn.symbols
        IN  /\ Len(Results) = Cardinality({k \in 1..Len(syms) : Usable(body, syms[k])})
            /\ \A i \in 1..Len(Results) :
                LET r == Results[i] IN
                /\ r.is_unusual_volume = Some(FALSE)
                /\ r.volume[1] > 0 =>
                        r.avg_volume_20d = r.volume /\ r.relative_volume = Some(100)
                /\ r.volume[1] = 0 =>
                        r.avg_volume_20d = NULL /\ r.relative_volume = Some(0)

\* C10 witness: bars denied with 403 and a row produced from the snapshot
C10_Witness ==
    /\ batchOut # NULL
    /\ batchIn.barsResps = <<Http(403, EmptyDict)>>
    /\ SnapshotOk
    /\ \E i \in 1..Len(Results) : Results[i].relative_volume = Some(100)

\* C10 as stated: every row has relative_volume exactly 1.0
C10_Original ==
    (batchOut # NULL /\ BarsDenied /\ SnapshotOk) =>
        \A i \in 1..Len(Results) :
            /\ Results[i].relative_volume = Some(100)
            /\ Results[i].is_unusual_volume = Some(FALSE)

\* the worked example: AAA (110 after 100, volume 4,000,000 on an average of
\* 1,000,000) and BBB (95 after 100, volume 200,000)
ExampleRows ==
    (/\ batchOut # NULL
     /\ batchIn.symbols = <<"AAA", "BBB">>
     /\ batchIn.snapResps = <<Http(200, [AAA |-> [dailyBar |-> Bar(110, 40), prevDailyBar |-> Bar(100, 10), latestTrade |-> [p |-> Some(110)]],
                                         BBB |-> [dailyBar |-> Bar(95, 2), prevDailyBar |-> Bar(100, 10), latestTrade |-> [p |-> Some(95)]]])>>
     /\ batchIn.barsResps = <<Http(200, [bars |-> [s \in BatchSymbols |-> <<HistBar(10, 120, 90), HistBar(40, 112, 108)>>]])>>)
    => /\ Len(Results) = 2
       /\ Results[1].change_percent = Some(1000)
       /\ Results[1].relative_volume = Some(400)
       /\ Results[1].is_unusual_volume = Some(TRUE)
       /\ Results[2].change_percent = Some(-500)
       /\ Results[2].relative_volume = Some(20)
       /\ Results[2].is_unusual_volume = Some(FALSE)

-----------------------------------------------------------------------------
(* AlpacaScanner._get_assets and AlpacaScanner.run_scan *)

Min(a, b) == IF a <= b THEN a ELSE b

Asset(sym, tradable, status) ==
    [symbol |-> Some(sym), name |-> Some(sym), tradable |-> Some(tradable),
     status |-> Some(status)]

\* {a["symbol"]: a for a in assets if a.get("tradable", False) and a.get("status") == "active"}
TradableActive(assets) ==
    LET ok(a) == GetOr(a, "tradable", Some(FALSE)) = Some(TRUE) /\ Get(a, "status") = Some("active")
        keys == {assets[k].symbol[1] : k \in {j \in 1..Len(assets) : ok(assets[j])}}
    IN  [sym \in keys |->
            assets[CHOOSE k \in 1..Len(assets) :
                    /\ ok(assets[k]) /\ assets[k].symbol = Some(sym)
                    /\ \A j \in (k + 1)..Len(assets) :
                            ~(ok(assets[j]) /\ assets[j].symbol = Some(sym))]]

\* a mutant: the cache, once set, is used whatever its age
CacheNeverExpires ==
    cache.symbols # NULL /\ cache.symbols[1] # EmptyDict /\ cache.time # NULL

\* the cache is used when it is set, non-empty and younger than an hour
CacheFresh ==
    /\ cache.symbols # NULL /\ cache.symbols[1] # EmptyDict /\ cache.time # NULL
    /\ now - cache.time[1] < CacheTtl

\* what _get_assets() returns, given the provider's answer if it is asked
AssetsResult(resp) ==
    IF CacheFresh THEN cache.symbols[1]
    ELSE IF resp.kind = "http" /\ resp.status = 200 THEN TradableActive(resp.body)
    ELSE EmptyDict

\* the cache after _get_assets()
AssetsCache(resp) ==
    IF ~CacheFresh /\ resp.kind = "http" /\ resp.status = 200
    THEN [symbols |-> Some(TradableActive(resp.body)), time |-> Some(now)]
    ELSE cache

\* a mutant: the delisting filter keeps every symbol
FilterNothing(symbols, asset_info) == symbols

\* a mutant: the delisting filter looks at the symbol's first letter only
FilterByInitial(symbols, asset_info) ==
    SelectSeq(symbols, LAMBDA sym : sym \in DOMAIN asset_info \/ sym = "ZZZ")

RECURSIVE FilterValid(_, _)
\* [s for s in symbols if s in valid_symbols]
FilterValid(symbols, asset_info) ==
    IF symbols = <<>> THEN <<>>
    ELSE (IF Head(symbols) \in DOMAIN asset_info THEN <<Head(symbols)>> ELSE <<>>)
            \o FilterValid(Tail(symbols), asset_info)

\* a mutant: a last batch shorter than batch_size is dropped
NumBatchesFloor(total) == total \div BatchSize

\* a mutant: the loop runs once on an empty list
NumBatchesAtLeastOne(total) ==
    IF total = 0 THEN 1 ELSE (total + BatchSize - 1) \div BatchSize

\* range(0, total, batch_size)
NumBatches(total) == (total + BatchSize - 1) \div BatchSize

\* symbols[i:i + batch_size] for the k-th batch, k from 1
BatchOf(symbols, k) ==
    SubSeq(symbols, (k - 1) * BatchSize + 1, Min(k * BatchSize, Len(symbols)))

\* a mutant: the bars are asked for whatever the snapshot request returned
BatchRequestsAlwaysBars(batch, snapshots) ==
    <<[endpoint |-> "snapshots", symbols |-> batch],
      [endpoint |-> "sleep", symbols |-> <<>>],
      [endpoint |-> "bars", symbols |-> batch]>>

\* the requests and the sleep of one _process_batch call, given what
\* _get_snapshots returned: `if not snapshots: return results` comes before
\* the sleep and the bars request
BatchRequests(batch, snapshots) ==
    <<[endpoint |-> "snapshots", symbols |-> batch]>>
        \o (IF snapshots # EmptyDict
            THEN <<[endpoint |-> "sleep", symbols |-> <<>>],
                   [endpoint |-> "bars", symbols |-> batch]>>
            ELSE <<>>)

\* len([r for r in rows if ...]), given the set of the rows' positions kept
CountRows(kept) == Cardinality(kept)

Abs(x) == IF x < 0 THEN -x ELSE x

\* the dict run_scan returns
Summary(started_at, completed_at, total, all_results) ==
    LET unusual(r) == Truthy(Get(r, "is_unusual_volume"))
        nearHigh(r) == Truthy(Get(r, "is_near_high"))
        bigMover(r) == Abs(GetOr(r, "change_percent", Some(0))[1]) > 500
        kept(P(_)) == {k \in 1..Len(all_results) : P(all_results[k])}
    IN  [status |-> "completed", started_at |-> started_at,
         completed_at |-> completed_at,
         duration_seconds |-> completed_at - started_at,
         stocks_scanned |-> total,
         stocks_with_data |-> Len(all_results),
         unusual_volume |-> CountRows(kept(unusual)),
         near_52w_high |-> CountRows(kept(nearHigh)),
         big_movers |-> CountRows(kept(bigMover))]

-----------------------------------------------------------------------------
(* SpecScan: one call of run_scan against the provider and the store *)

ScanSymbols == {"AAA", "BBB", "ZZZ"}

\* the symbol lists run_scan is called with (None is the full universe)
SymbolLists ==
    {<<>>, <<"AAA">>, <<"ZZZ">>, <<"AAA", "ZZZ">>, <<"BBB", "AAA">>,
     <<"AAA", "AAA", "BBB">>, <<"ZZZ", "AAA", "BBB", "AAA">>}

\* the asset listings the provider may return
AssetLists ==
    {<<Asset("AAA", TRUE, "active"), Asset("BBB", TRUE, "active"),
       Asset("ZZZ", FALSE, "active")>>,
     <<Asset("AAA", TRUE, "active"), Asset("BBB", TRUE, "inactive")>>}

AssetResps ==
    {Http(200, a) : a \in AssetLists} \cup {Http(500, <<>>), Failure}

\* the provider's data per symbol: it answers for every symbol it is asked
\* about, listed or not
SnapOf(sym) ==
    IF sym = "AAA"
    THEN [dailyBar |-> Bar(110, 40), prevDailyBar |-> Bar(100, 10), latestTrade |-> [p |-> Some(110)]]
    ELSE IF sym = "BBB"
    THEN [dailyBar |-> Bar(95, 2), prevDailyBar |-> Bar(100, 10), latestTrade |-> [p |-> Some(95)]]
    ELSE [dailyBar |-> Bar(50, 1), prevDailyBar |-> Bar(50, 1), latestTrade |-> [p |-> Some(50)]]

BarsOf(sym) == <<HistBar(10, 120, 90), HistBar(40, 112, 40)>>

SeqRange(q) == {q[k] : k \in 1..Len(q)}

ScanSnapResps(batch) ==
    {<<Http(200, [sym \in present |-> SnapOf(sym)])>> : present \in SUBSET SeqRange(batch)}
        \cup {<<Http(500, EmptyDict)>>, <<Failure>>}

ScanBarsResps(batch) ==
    {<<Http(200, [bars |-> [sym \in SeqRange(batch) |-> BarsOf(sym)]])>>,
     <<Http(403, EmptyDict)>>}

\* rows an earlier scan left in the store
StaleRow(sym) ==
    UpsertParams(ResultRow(sym, [name |-> Some(sym)], 100, 100, 10, <<>>), 0)

OldScanRow == ScanRow("alpaca_scan", 0, 0, 3, 3)

\* the scanner and the store before the call: new, or used by earlier scans
InitScan ==
    /\ InitBatchIdle
    /\ InitSched
    /\ now = 0
    /\ replaced = {}
    /\ market_indicators = <<>>
    /\ scan = [pc |-> "idle"]
    /\ requests = <<>>
    /\ atStart = NULL
    /\ \/ /\ stocks = {}
          /\ scan_metadata = <<>>
          /\ cache = [symbols |-> NULL, time |-> NULL]
       \/ /\ stocks = {StaleRow(sym) : sym \in ScanSymbols}
          /\ scan_metadata = <<OldScanRow>>
          /\ cache \in {[symbols |-> NULL, time |-> NULL]}
                \cup {[symbols |-> Some(TradableActive(a)), time |-> Some(0)] : a \in AssetLists}

\* run_scan up to the batch loop: the asset listing and the delisting filter
ScanBegin ==
    /\ scan.pc = "idle"
    /\ \E symbolsArg \in SymbolLists, resp \in AssetResps :
        LET asset_info == AssetsResult(resp)
            symbols == FilterValid(symbolsArg, asset_info)
        IN  /\ scan' = [pc |-> "loop", requested |-> symbolsArg, started_at |-> now,
                        original_count |-> Len(symbolsArg), asset_info |-> asset_info,
                        symbols |-> symbols, total |-> Len(symbols), i |-> 0,
                        all_results |-> <<>>, scanned |-> 0, summary |-> NULL,
                        persisted |-> <<>>, snapAnswers |-> <<>>]
            /\ cache' = AssetsCache(resp)
            /\ requests' = IF CacheFresh THEN requests
                           ELSE Append(requests, [endpoint |-> "assets", symbols |-> <<>>])
    /\ atStart' = [stocks |-> stocks, scan_metadata |-> scan_metadata]
    /\ UNCHANGED <<storeVars, batchVars, schedVars>>

\* one iteration of the batch loop
ScanBatch ==
    /\ scan.pc = "loop"
    /\ scan.i < NumBatches(scan.total)
    /\ LET batch == BatchOf(scan.symbols, scan.i + 1) IN
       \E snapResps \in ScanSnapResps(batch), barsResps \in ScanBarsResps(batch),
          upsertRaises \in BOOLEAN, callbackRaises \in BOOLEAN :
        LET results == _process_batch(batch, scan.asset_info, snapResps, barsResps)
            raised == upsertRaises \/ callbackRaises
        IN  /\ upsertRaises => results # <<>> /\ ~callbackRaises
            /\ IF results # <<>> /\ ~upsertRaises
               THEN bulk_upsert(results)
               ELSE UNCHANGED storeVars
            /\ scan' = [scan EXCEPT
                    !.i = @ + 1,
                    !.all_results = @ \o results,
                    !.scanned = @ + Len(batch) + (IF raised THEN Len(batch) ELSE 0),
                    !.persisted = @ \o (IF upsertRaises THEN <<>> ELSE results),
                    !.snapAnswers = Append(@, snapResps)]
            /\ requests' = requests \o BatchRequests(batch, _get_snapshots(snapResps))
    /\ UNCHANGED <<cache, atStart, batchVars, schedVars>>

\* after the loop: log_scan and the summary
ScanLog ==
    /\ scan.pc = "loop"
    /\ scan.i = NumBatches(scan.total)
    /\ log_scan("alpaca_scan", scan.started_at, now, scan.total, Len(scan.all_results))
    /\ scan' = [scan EXCEPT !.pc = "returned",
                    !.summary = Some(Summary(scan.started_at, now, scan.total, scan.all_results))]
    /\ UNCHANGED <<cache, requests, atStart, batchVars, schedVars>>

\* log_scan raises (the database is locked): run_scan raises with it
ScanLogRaises ==
    /\ scan.pc = "loop"
    /\ scan.i = NumBatches(scan.total)
    /\ scan' = [scan EXCEPT !.pc = "raised"]
    /\ UNCHANGED <<storeVars, cache, requests, atStart, batchVars, schedVars>>

\* time passes
ScanTick ==
    /\ now < MaxClock
    /\ now' = now + 1
    /\ UNCHANGED <<stocks, scan_metadata, market_indicators, replaced, batchVars, scanVars,
                   schedVars>>

NextScan == ScanBegin \/ ScanBatch \/ ScanLog \/ ScanLogRaises \/ ScanTick

SpecScan == InitScan /\ [][NextScan]_vars

-----------------------------------------------------------------------------
(* Claims about run_scan *)

ScanEntered == scan.pc # "idle"
ScanReturned == scan.pc = "returned"

RowsOf(table, sym) == {r \in table : r.symbol = Some(sym)}
ResultSymbols == {scan.all_results[k].symbol[1] : k \in 1..Len(scan.all_results)}
Requested(sym) == \E k \in 1..Len(scan.requested) : scan.requested[k] = sym
Active(sym) == sym \in DOMAIN scan.asset_info

\* C4: a run_scan call that returns has appended exactly one scan_metadata
\* row (none before its end, the earlier rows kept), and in that row
\* stocks_with_data <= stocks_scanned, whatever the symbol list (repeated
\* symbols included), the active set and the batches that failed.
C4_OneScanRow ==
    /\ (ScanEntered /\ ~ScanReturned) => scan_metadata = atStart.scan_metadata
    /\ ScanReturned =>
        /\ Len(scan_metadata) = Len(atStart.scan_metadata) + 1
        /\ SubSeq(scan_metadata, 1, Len(atStart.scan_metadata)) = atStart.scan_metadata
        /\ Last(scan_metadata).stocks_with_data <= Last(scan_metadata).stocks_scanned
        /\ scan.summary[1].stocks_with_data <= scan.summary[1].stocks_scanned

\* C4 witness: a scan of a list with a repeated symbol returned after a batch
\* raised, with data for some symbol
C4_Witness ==
    /\ ScanReturned
    /\ scan.requested = <<"AAA", "AAA", "BBB">>
    /\ scan.scanned > scan.total
    /\ Last(scan_metadata).stocks_with_data > 0

\* C5 (as amended): when some requested symbols are not in the active set,
\* the logged and returned stocks_scanned is the number of requested symbols
\* that are in the active set (the count after the delisting filter), and
\* stocks_with_data counts the rows produced, all of them for active symbols.
C5_ScannedAfterFilter ==
    ScanReturned =>
        LET n == Cardinality({k \in 1..Len(scan.requested) : Active(scan.requested[k])})
            row == Last(scan_metadata)
        IN  /\ row.stocks_scanned = n
            /\ scan.summary[1].stocks_scanned = n
            /\ row.stocks_with_data = Len(scan.all_results)
            /\ scan.summary[1].stocks_with_data = Len(scan.all_results)
            /\ \A sym \in ResultSymbols : Active(sym)

\* C5 witness: AAA and the delisted ZZZ were requested; one symbol is
\* counted as scanned and one has data
C5_Witness ==
    /\ ScanReturned
    /\ scan.requested = <<"AAA", "ZZZ">>
    /\ ~Active("ZZZ")
    /\ Last(scan_metadata).stocks_scanned = 1
    /\ Last(scan_metadata).stocks_with_data = 1

\* C5 as stated: stocks_scanned is the number of symbols requested, before
\* the delisting filter
C5_Original ==
    ScanReturned =>
        /\ Last(scan_metadata).stocks_scanned = Len(scan.requested)
        /\ scan.summary[1].stocks_scanned = Len(scan.requested)

\* C6: a symbol that is not in the active set run_scan fetched is in no
\* snapshot or bars request of the scan, and the scan inserts or overwrites
\* no stocks row for it.
C6_DelistedDropped ==
    ScanEntered =>
        /\ \A k \in 1..Len(requests) :
                requests[k].endpoint \in {"snapshots", "bars"} =>
                    \A sym \in SeqRange(requests[k].symbols) : Active(sym)
        /\ \A sym \in ScanSymbols :
                ~Active(sym) => RowsOf(stocks, sym) = RowsOf(atStart.stocks, sym)

\* C6 witness: ZZZ was requested and is not active, the store had a row for
\* it, and the scan sent requests and wrote rows
C6_Witness ==
    /\ ScanReturned
    /\ Requested("ZZZ") /\ ~Active("ZZZ")
    /\ HasRow(atStart.stocks, "ZZZ")
    /\ \E k \in 1..Len(requests) : requests[k].endpoint = "bars"
    /\ stocks # atStart.stocks

\* C8: a scan changes only the rows of symbols it fetched: the row of every
\* symbol for which the scan produced no result is as it was when the scan
\* began, and no row is deleted.
C8_OnlyFetchedRowsChange ==
    ScanEntered =>
        \A sym \in ScanSymbols :
            /\ sym \notin ResultSymbols => RowsOf(stocks, sym) = RowsOf(atStart.stocks, sym)
            /\ HasRow(atStart.stocks, sym) => HasRow(stocks, sym)
            /\ Cardinality(RowsOf(stocks, sym)) <= 1

\* C8 witness: the scan rewrote the row of AAA; BBB was requested and active
\* but produced no result, ZZZ was filtered out, and both kept their rows
C8_Witness ==
    /\ ScanReturned
    /\ "AAA" \in ResultSymbols
    /\ RowsOf(stocks, "AAA") # RowsOf(atStart.stocks, "AAA")
    /\ Requested("BBB") /\ Active("BBB") /\ "BBB" \notin ResultSymbols
    /\ Requested("ZZZ") /\ ~Active("ZZZ")
    /\ RowsOf(stocks, "BBB") = {StaleRow("BBB")}
    /\ RowsOf(stocks, "ZZZ") = {StaleRow("ZZZ")}

-----------------------------------------------------------------------------
(* ScannerScheduler: scheduler.py.                                         *)
(* A thread is known by its position; who is "current" (the loop thread    *)
(* self._thread refers to), "orphan" (an earlier loop thread) or "worker"  *)
(* (a trigger_scan_now thread).  scanner.run_scan is followed through its  *)
(* writes to the store: the upsert of a batch, then log_scan; SpecScan     *)
(* follows it in full.  Spec does not follow time: the clock stands at     *)
(* MaxClock, and the interval test of _should_scan is resolved either way. *)

interval_minutes == 30

Who == {"current", "orphan", "worker"}

\* the positions between the entry of _run_scan and its exit
InRunScan == {"run", "log", "ran", "finally"}

At(who, pc) ==
    IF who = "current" THEN _thread = Some(pc)
    ELSE IF who = "orphan" THEN BagIn(pc, orphans)
    ELSE BagIn(pc, workers)

\* the thread who at position from moves to position to; an ended thread
\* other than self._thread is forgotten
Move(who, from, to) ==
    LET moved(bag) == IF to = "dead" THEN bag (-) SetToBag({from})
                      ELSE (bag (-) SetToBag({from})) (+) SetToBag({to})
    IN  IF who = "current"
        THEN _thread' = Some(to) /\ UNCHANGED <<orphans, workers>>
        ELSE IF who = "orphan"
        THEN orphans' = moved(orphans) /\ UNCHANGED <<_thread, workers>>
        ELSE workers' = moved(workers) /\ UNCHANGED <<_thread, orphans>>

LoopAlive == _thread # NULL /\ _thread # Some("dead")

\* the number of threads at one of the positions pcs
ThreadsAt(pcs) ==
    LET count(bag) == BagCardinality([pc \in (DOMAIN bag) \cap pcs |-> bag[pc]])
    IN  (IF _thread # NULL /\ _thread[1] \in pcs THEN 1 ELSE 0)
            + count(orphans) + count(workers)

\* a mutant: the interval is not looked at
ShouldScanWheneverIdle(minutes_since_last) == ~_scan_in_progress

\* _should_scan(), given the minutes since the last scan
_should_scan(minutes_since_last) ==
    IF _scan_in_progress THEN FALSE
    ELSE IF _last_scan = NULL THEN TRUE
    ELSE minutes_since_last >= interval_minutes

\* the rows the scan of a thread upserts
SchedResults == <<ResultRow("AAA", [name |-> Some("AAA")], 110, 100, 40, <<>>)>>

Frame == UNCHANGED <<batchVars, scanVars>>

\* start()
start ==
    /\ caller = "idle"
    /\ IF _running
       THEN UNCHANGED <<_running, _thread, orphans>>
       ELSE /\ BagCardinality(orphans) + (IF LoopAlive THEN 1 ELSE 0) < MaxLoops
            /\ _running' = TRUE
            /\ _thread' = Some("sleep")
            /\ orphans' = IF LoopAlive THEN orphans (+) SetToBag({_thread[1]})
                          ELSE orphans
    /\ UNCHANGED <<_last_scan, _scan_in_progress, workers, caller, returned, scans, storeVars>>
    /\ UNCHANGED outcome
    /\ Frame

\* stop(), up to the join
stop ==
    /\ caller = "idle"
    /\ _running' = FALSE
    /\ caller' = IF _thread # NULL THEN "joining" ELSE "idle"
    /\ UNCHANGED <<_thread, _last_scan, _scan_in_progress, orphans, workers, returned,
                   scans, storeVars>>
    /\ UNCHANGED outcome
    /\ Frame

\* stop(): self._thread.join(timeout=5) returns because the thread has ended
StopJoined ==
    /\ caller = "joining"
    /\ ~LoopAlive
    /\ caller' = "idle"
    /\ UNCHANGED <<_running, _thread, _last_scan, _scan_in_progress, orphans, workers,
                   returned, scans, storeVars>>
    /\ UNCHANGED outcome
    /\ Frame

\* stop(): self._thread.join(timeout=5) returns because five seconds have passed
StopTimedOut ==
    /\ caller = "joining"
    /\ LoopAlive
    /\ caller' = "idle"
    /\ UNCHANGED <<_running, _thread, _last_scan, _scan_in_progress, orphans, workers,
                   returned, scans, storeVars>>
    /\ UNCHANGED outcome
    /\ Frame

\* a mutant: a scan thread is started whatever the flag says
TriggerAlwaysStarts ==
    /\ scans < MaxScans
    /\ scans' = scans + 1
    /\ returned' = Some("started")
    /\ workers' = workers (+) SetToBag({"enter"})
    /\ UNCHANGED <<_running, _thread, _last_scan, _scan_in_progress, orphans, caller,
                   storeVars>>
    /\ UNCHANGED outcome
    /\ Frame

\* trigger_scan_now()
trigger_scan_now ==
    /\ IF _scan_in_progress
       THEN /\ returned' = Some("scan_in_progress")
            /\ UNCHANGED <<workers, scans>>
       ELSE /\ scans < MaxScans
            /\ scans' = scans + 1
            /\ returned' = Some("started")
            /\ workers' = workers (+) SetToBag({"enter"})
    /\ UNCHANGED <<_running, _thread, _last_scan, _scan_in_progress, orphans, caller,
                   storeVars>>
    /\ UNCHANGED outcome
    /\ Frame

\* _run_loop: time.sleep(10) is over
LoopWake(who) ==
    /\ At(who, "sleep")
    /\ Move(who, "sleep", "check")
    /\ UNCHANGED <<_running, _last_scan, _scan_in_progress, caller, returned, scans, storeVars>>
    /\ UNCHANGED outcome
    /\ Frame

\* _run_loop: while self._running: if self._should_scan(): self._run_scan()
LoopCheckAfter(who, minutes_since_last) ==
    /\ At(who, "check")
    /\ IF ~_running THEN Move(who, "check", "dead") /\ UNCHANGED scans
       ELSE IF _should_scan(minutes_since_last)
       THEN scans < MaxScans /\ scans' = scans + 1 /\ Move(who, "check", "enter")
       ELSE Move(who, "check", "poll") /\ UNCHANGED scans
    /\ UNCHANGED <<_running, _last_scan, _scan_in_progress, caller, returned, storeVars>>
    /\ UNCHANGED outcome
    /\ Frame

\* the same, the time since the last scan being whatever it may be
LoopCheck(who) ==
    \E minutes_since_last \in {0, interval_minutes} : LoopCheckAfter(who, minutes_since_last)

\* _run_loop: the sixty one-second sleeps end, or _running is seen false
LoopPoll(who) ==
    /\ At(who, "poll")
    /\ Move(who, "poll", "check")
    /\ UNCHANGED <<_running, _last_scan, _scan_in_progress, caller, returned, scans, storeVars>>
    /\ UNCHANGED outcome
    /\ Frame

\* _run_scan: self._scan_in_progress = True, and run_scan is entered
RunEnter(who) ==
    /\ At(who, "enter")
    /\ _scan_in_progress' = TRUE
    /\ Move(who, "enter", "run")
    /\ UNCHANGED <<_running, _last_scan, caller, returned, scans, storeVars>>
    /\ UNCHANGED outcome
    /\ Frame

\* run_scan: the results of a batch are upserted
RunBatch(who) ==
    /\ At(who, "run")
    /\ bulk_upsert(SchedResults)
    /\ Move(who, "run", "log")
    /\ UNCHANGED <<_running, _last_scan, _scan_in_progress, caller, returned, scans>>
    /\ UNCHANGED outcome
    /\ Frame

\* run_scan: log_scan, and run_scan returns
RunLog(who) ==
    /\ At(who, "log")
    /\ log_scan("alpaca_scan", now, now, Len(SchedResults), Len(SchedResults))
    /\ Move(who, "log", "ran")
    /\ UNCHANGED <<_running, _last_scan, _scan_in_progress, caller, returned, scans>>
    /\ UNCHANGED outcome
    /\ Frame

\* a mutant: a scan that raised stamps _last_scan all the same
RunRaiseStampsLast(who) ==
    /\ \E pc \in {"run", "log"} : At(who, pc) /\ Move(who, pc, "finally")
    /\ _last_scan' = Some(now)
    /\ UNCHANGED <<_running, _scan_in_progress, caller, returned, scans, storeVars>>
    /\ outcome' = Some("raised")
    /\ Frame

\* run_scan raises, before any write or at log_scan: except Exception logs it
RunRaise(who) ==
    /\ \E pc \in {"run", "log"} : At(who, pc) /\ Move(who, pc, "finally")
    /\ UNCHANGED <<_running, _last_scan, _scan_in_progress, caller, returned, scans, storeVars>>
    /\ outcome' = Some("raised")
    /\ Frame

\* _run_scan: self._last_scan = datetime.now(timezone.utc)
RunLast(who) ==
    /\ At(who, "ran")
    /\ _last_scan' = Some(now)
    /\ Move(who, "ran", "finally")
    /\ UNCHANGED <<_running, _scan_in_progress, caller, returned, scans, storeVars>>
    /\ outcome' = Some("returned")
    /\ Frame

\* _run_scan: finally: self._scan_in_progress = False; a loop thread goes on
\* to its sleeps, a trigger_scan_now thread ends
RunFinally(who) ==
    /\ At(who, "finally")
    /\ _scan_in_progress' = FALSE
    /\ Move(who, "finally", IF who = "worker" THEN "dead" ELSE "poll")
    /\ UNCHANGED <<_running, _last_scan, caller, returned, scans, storeVars>>
    /\ UNCHANGED outcome
    /\ Frame

\* get_status(), without the statistics of the store
get_status ==
    [running |-> _running,
     scan_in_progress |-> _scan_in_progress,
     last_scan |-> _last_scan,
     interval_minutes |-> interval_minutes]

ThreadStep(who) ==
    \/ LoopWake(who) \/ LoopCheck(who) \/ LoopPoll(who)
    \/ RunEnter(who) \/ RunBatch(who) \/ RunLog(who) \/ RunRaise(who)
    \/ RunLast(who) \/ RunFinally(who)

Init ==
    /\ stocks = {} /\ scan_metadata = <<>> /\ market_indicators = <<>> /\ replaced = {}
    /\ now = MaxClock
    /\ InitBatchIdle /\ InitScanIdle /\ InitSched

Next ==
    \/ start \/ stop \/ StopJoined \/ StopTimedOut \/ trigger_scan_now
    \/ \E who \in Who : ThreadStep(who)

Spec == Init /\ [][Next]_vars

-----------------------------------------------------------------------------
(* The claims about the scheduler, under Spec.                             *)

\* C1: at most one execution of _run_scan is in progress, under any
\* interleaving of the loop thread and the trigger_scan_now() calls.  The
\* flag is tested by the thread that decides on a scan and set by the thread
\* that runs it, so two decisions can both see it false.
C1_AtMostOneScan == ThreadsAt(InRunScan) <= 1

\* C2: trigger_scan_now() called while _scan_in_progress is true returns
\* status "scan_in_progress", starts no thread and appends no scan_metadata
\* row (nor writes any stocks row).
C2_TriggerWhileScanning ==
    [][(trigger_scan_now /\ _scan_in_progress) =>
           /\ returned' = Some("scan_in_progress")
           /\ UNCHANGED <<_thread, orphans, workers, scan_metadata, stocks>>]_vars

\* C2 witness: a call was turned away while a scan is in progress
C2_Witness ==
    /\ returned = Some("scan_in_progress")
    /\ _scan_in_progress
    /\ ThreadsAt(InRunScan) >= 1

\* stop() has returned after a start(), and start() was not called since
Stopped == _thread # NULL /\ ~_running /\ caller = "idle"

\* C3: after stop() returns no scan the scheduler started writes to the
\* store, neither by bulk_upsert nor by log_scan.  stop() waits five seconds
\* for the loop thread only, so a scan in progress goes on writing.
C3_NoWriteAfterStop == [][Stopped => UNCHANGED <<stocks, scan_metadata>>]_vars

-----------------------------------------------------------------------------
(* ScannerDB.calculate_and_store_indicators: database.py.                  *)
(* Here volumes are in shares; change_percent, relative_volume and the two *)
(* distances are in hundredths, as everywhere.  A comparison with a null   *)
(* column is not true, as in SQL.  The quotients are kept exact, as pairs  *)
(* <<numerator, denominator>>; the components are stored in tenths and the *)
(* two ratios in thousandths.  The serialized sector breakdown is not      *)
(* followed.                                                               *)

breadth_floor == 10000
unusual_floor == 50000

\* volume > floor
VolumeAbove(r, floor) == r.volume # NULL /\ r.volume[1] > floor

Gt(v, k) == v # NULL /\ v[1] > k
Lt(v, k) == v # NULL /\ v[1] < k
Ge(v, k) == v # NULL /\ v[1] >= k
Le(v, k) == v # NULL /\ v[1] <= k

RECURSIVE SumVolume(_)
\* COALESCE(SUM(volume), 0) over rows whose volume is not null
SumVolume(rows) ==
    IF rows = {} THEN 0
    ELSE LET r == CHOOSE x \in rows : TRUE
         IN  r.volume[1] + SumVolume(rows \ {r})

\* a mutant: a component whose denominator is zero is 0
FgComponentZero(part, whole) == IF whole > 0 THEN <<part * 100, whole>> ELSE <<0, 1>>

\* (part / whole) * 100 if whole > 0, else 50
FgComponent(part, whole) == IF whole > 0 THEN <<part * 100, whole>> ELSE <<50, 1>>

\* a mutant: the ratio over a zero denominator is 0
RatioOrZero(x, y) == IF y > 0 THEN RoundInt(1000 * x, y) ELSE 0

\* round(x / y, 3) if y > 0 else 10.0, in thousandths
RatioOrTen(x, y) == IF y > 0 THEN RoundInt(1000 * x, y) ELSE 10000

FearGreedLabel(score) ==
    IF score <= 20 THEN "Extreme Fear"
    ELSE IF score <= 40 THEN "Fear"
    ELSE IF score <= 60 THEN "Neutral"
    ELSE IF score <= 80 THEN "Greed"
    ELSE "Extreme Greed"

\* a mutant: the weighted sum is truncated, not rounded
FearGreedScoreTruncated(b, v, m, s) ==
    (b[1] * v[2] * m[2] * s[2] + v[1] * b[2] * m[2] * s[2]
        + m[1] * b[2] * v[2] * s[2] + s[1] * b[2] * v[2] * m[2])
    \div (4 * b[2] * v[2] * m[2] * s[2])

\* max(0, min(100, round(0.25 * b + 0.25 * v + 0.25 * m + 0.25 * s)))
FearGreedScore(b, v, m, s) ==
    LET n == b[1] * v[2] * m[2] * s[2] + v[1] * b[2] * m[2] * s[2]
                + m[1] * b[2] * v[2] * s[2] + s[1] * b[2] * v[2] * m[2]
        d == 4 * b[2] * v[2] * m[2] * s[2]
        rounded == RoundInt(n, d)
    IN  IF rounded < 0 THEN 0 ELSE IF rounded > 100 THEN 100 ELSE rounded

\* the row calculate_and_store_indicators inserts, computed from table
IndicatorRow(table, timestamp) ==
    LET liquid == {r \in table : VolumeAbove(r, breadth_floor)}
        up == {r \in liquid : Gt(r.change_percent, 0)}
        down == {r \in liquid : Lt(r.change_percent, 0)}
        advancing == Cardinality(up)
        declining == Cardinality(down)
        unchanged == Cardinality({r \in liquid : r.change_percent = Some(0)})
        new_highs == Cardinality({r \in liquid : Ge(r.distance_from_52w_high, -200)})
        new_lows == Cardinality({r \in liquid : Le(r.distance_from_52w_low, 200)})
        up_volume == SumVolume(up)
        down_volume == SumVolume(down)
        total_volume == SumVolume(liquid)
        gainers(k) == Cardinality({r \in liquid : Ge(r.change_percent, k)})
        losers(k) == Cardinality({r \in liquid : Le(r.change_percent, -k)})
        fg_breadth == FgComponent(advancing, advancing + declining + unchanged)
        fg_volume == FgComponent(up_volume, total_volume)
        fg_momentum == FgComponent(gainers(300), gainers(300) + losers(300))
        fg_strength == FgComponent(new_highs, new_highs + new_lows)
        fear_greed_score == FearGreedScore(fg_breadth, fg_volume, fg_momentum, fg_strength)
    IN  [timestamp |-> timestamp,
         advancing |-> advancing, declining |-> declining, unchanged |-> unchanged,
         ad_ratio |-> RatioOrTen(advancing, declining),
         ad_line |-> advancing - declining,
         new_highs |-> new_highs, new_lows |-> new_lows,
         up_volume |-> up_volume, down_volume |-> down_volume,
         volume_ratio |-> RatioOrTen(up_volume, down_volume),
         total_volume |-> total_volume,
         unusual_volume_count |->
            Cardinality({r \in table : Ge(r.relative_volume, 200)
                                        /\ VolumeAbove(r, unusual_floor)}),
         gainers_1pct |-> gainers(100), gainers_3pct |-> gainers(300),
         gainers_5pct |-> gainers(500),
         losers_1pct |-> losers(100), losers_3pct |-> losers(300),
         losers_5pct |-> losers(500),
         fear_greed_score |-> fear_greed_score,
         fear_greed_label |-> FearGreedLabel(fear_greed_score),
         fg_breadth_component |-> RoundInt(10 * fg_breadth[1], fg_breadth[2]),
         fg_volume_component |-> RoundInt(10 * fg_volume[1], fg_volume[2]),
         fg_momentum_component |-> RoundInt(10 * fg_momentum[1], fg_momentum[2]),
         fg_strength_component |-> RoundInt(10 * fg_strength[1], fg_strength[2])]

\* calculate_and_store_indicators()
calculate_and_store_indicators ==
    /\ market_indicators' = Append(market_indicators, IndicatorRow(stocks, now))
    /\ UNCHANGED <<stocks, scan_metadata, now, replaced>>

-----------------------------------------------------------------------------
(* SpecInd: indicator snapshots of a stocks table *)

IndSymbols == {"AAA", "BBB", "CCC"}

\* what upsert_stock may have been given for a symbol: a gainer near its
\* high on unusual volume, a loser near its low, an unchanged stock, a gainer
\* at the volume floor, two dicts without change_percent, a small gainer, a
\* small loser
IndShapes ==
    {[change_percent |-> Some(400), volume |-> Some(60000), relative_volume |-> Some(250),
      distance_from_52w_high |-> Some(-100), distance_from_52w_low |-> Some(3000)],
     [change_percent |-> Some(-400), volume |-> Some(20000), relative_volume |-> Some(100),
      distance_from_52w_high |-> Some(-3000), distance_from_52w_low |-> Some(100)],
     [change_percent |-> Some(0), volume |-> Some(20000), relative_volume |-> Some(100)],
     [change_percent |-> Some(400), volume |-> Some(10000), relative_volume |-> Some(300),
      distance_from_52w_high |-> Some(-100), distance_from_52w_low |-> Some(3000)],
     [volume |-> Some(20000), distance_from_52w_high |-> Some(-100),
      distance_from_52w_low |-> Some(5000)],
     [volume |-> Some(20000), distance_from_52w_high |-> Some(-5000),
      distance_from_52w_low |-> Some(100)],
     [change_percent |-> Some(50), volume |-> Some(20000), relative_volume |-> Some(90),
      distance_from_52w_high |-> Some(-1000), distance_from_52w_low |-> Some(1000)],
     [change_percent |-> Some(-100), volume |-> Some(30000), relative_volume |-> Some(100),
      distance_from_52w_high |-> Some(-2000), distance_from_52w_low |-> Some(2000)]}

\* the row upsert_stock stores for a symbol and a shape
IndRow(sym, shape) == UpsertParams([symbol |-> Some(sym)] @@ shape, 0)

\* the tables: at most one row per symbol
IndTables ==
    {{IndRow(sym, pick[sym][1]) : sym \in {x \in IndSymbols : pick[x] # NULL}} :
        pick \in [IndSymbols -> {NULL} \cup {Some(sh) : sh \in IndShapes}]}

InitInd ==
    /\ stocks \in IndTables
    /\ scan_metadata = <<>>
    /\ market_indicators = <<>>
    /\ now = 0
    /\ replaced = {}
    /\ InitBatchIdle /\ InitScanIdle /\ InitSched

IndCalculate ==
    /\ Len(market_indicators) < MaxSnapshots
    /\ calculate_and_store_indicators
    /\ UNCHANGED <<batchVars, scanVars, schedVars>>

IndTick ==
    /\ now < MaxClock
    /\ now' = now + 1
    /\ UNCHANGED <<stocks, scan_metadata, market_indicators, replaced, batchVars, scanVars,
                   schedVars>>

NextInd == IndCalculate \/ IndTick

SpecInd == InitInd /\ [][NextInd]_vars

-----------------------------------------------------------------------------
(* Claims about the indicators *)

NoLiquidRow == \A r \in stocks : ~VolumeAbove(r, breadth_floor)

AllFifty(row) ==
    /\ row.fg_breadth_component = 500
    /\ row.fg_volume_component = 500
    /\ row.fg_momentum_component = 500
    /\ row.fg_strength_component = 500
    /\ row.fear_greed_score = 50
    /\ row.fear_greed_label = "Neutral"

C12_SnapshotPerScan ==
    ThreadsAt(InRunScan) = 0 => Len(market_indicators) = Len(scan_metadata)

-----------------------------------------------------------------------------
(* SpecLoop: the scheduler loop against the clock.  One loop thread, the   *)
(* manual triggers and the clock; a tick of the clock is MinutesPerTick    *)
(* minutes.                                                                *)

MinutesPerTick == 15

\* (now - self._last_scan).total_seconds() / 60
MinutesSinceLast == IF _last_scan = NULL THEN 0 ELSE (now - _last_scan[1]) * MinutesPerTick

\* _run_loop's test, at the clock's reading
LoopCheckNow(who) == LoopCheckAfter(who, MinutesSinceLast)

LoopTick ==
    /\ now < MaxClock
    /\ now' = now + 1
    /\ UNCHANGED <<stocks, scan_metadata, market_indicators, replaced, batchVars, scanVars,
                   schedVars>>

InitLoop ==
    /\ stocks = {} /\ scan_metadata = <<>> /\ market_indicators = <<>> /\ replaced = {}
    /\ now = 0
    /\ InitBatchIdle /\ InitScanIdle /\ InitSched

LoopStep ==
    \/ LoopWake("current") \/ LoopCheckNow("current") \/ LoopPoll("current")
    \/ \E who \in {"current", "worker"} :
        \/ RunEnter(who) \/ RunBatch(who) \/ RunLog(who) \/ RunRaise(who)
        \/ RunLast(who) \/ RunFinally(who)

NextLoop == start \/ trigger_scan_now \/ LoopStep \/ LoopTick

SpecLoop == InitLoop /\ [][NextLoop]_vars

\* what the spec requires for the loop to start a scan
IntervalElapsed ==
    _last_scan = NULL \/ (now - _last_scan[1]) * MinutesPerTick >= interval_minutes

-----------------------------------------------------------------------------
(* SpecRetry: one call of _get_snapshots or _get_bars_bulk against a       *)
(* provider that answers 429 some number of times before its answer.       *)

RECURSIVE RateLimited(_)
\* n answers 429 in a row
RateLimited(n) == IF n = 0 THEN <<>> ELSE <<Http(429, EmptyDict)>> \o RateLimited(n - 1)

\* the provider's answer once it stops limiting
FinalResps ==
    {Http(200, [AAA |-> SnapOf("AAA")]),
     Http(200, [bars |-> [AAA |-> BarsOf("AAA")]]),
     Http(200, EmptyDict), Http(403, EmptyDict), Http(500, EmptyDict), Failure}

InitRetry ==
    /\ InitStore /\ InitScanIdle /\ InitSched
    /\ batchIn \in [endpoint : {"snapshots", "bars"},
                    symbols : {<<"AAA">>, <<"AAA", "BBB">>},
                    resps : {RateLimited(n) \o <<final>> :
                                n \in 0..RecursionLimit, final \in FinalResps}]
    /\ batchOut = NULL

\* the call, from its first request to its return
ClientCall ==
    /\ batchOut = NULL
    /\ batchOut' = Some([value |-> IF batchIn.endpoint = "snapshots"
                                   THEN _get_snapshots(batchIn.resps)
                                   ELSE _get_bars_bulk(batchIn.resps),
                         events |-> ClientEvents(batchIn.symbols, batchIn.resps, 1)])
    /\ UNCHANGED <<batchIn, storeVars, scanVars, schedVars>>

NextRetry == ClientCall

SpecRetry == InitRetry /\ [][NextRetry]_vars

\* what the call returns for an answer other than 429
AnswerValue(endpoint, r) ==
    IF r.kind = "http" /\ r.status = 200
    THEN (IF endpoint = "snapshots" THEN r.body ELSE GetOr(r.body, "bars", EmptyDict))
    ELSE EmptyDict

\* C14: a 429 answer is never surfaced: after any number n of consecutive 429
\* answers the call has issued n + 1 requests, all with the same symbols,
\* has slept the cooldown after each 429, and returns the value of the first
\* answer that is not 429.  The retry is a nested call, so the answer that
\* follows RecursionLimit answers 429 is never asked for and {} is returned.
C14_RetryUntilAnswered ==
    batchOut # NULL =>
        LET n == Len(batchIn.resps) - 1
            out == batchOut[1]
        IN  /\ out.value = AnswerValue(batchIn.endpoint, Last(batchIn.resps))
            /\ Len(out.events) = 2 * n + 1
            /\ \A k \in 1..Len(out.events) :
                    IF k % 2 = 1
                    THEN out.events[k] = [event |-> "request", symbols |-> batchIn.symbols]
                    ELSE out.events[k] = [event |-> "sleep", seconds |-> rate_limit_wait]

-----------------------------------------------------------------------------
(* More claims about run_scan, under SpecScan *)

\* the step is an iteration of the batch loop
BatchStep == scan.pc = "loop" /\ scan'.pc = "loop" /\ scan'.i = scan.i + 1

\* the iteration ended in the except clause: scanned was incremented twice
BatchRaised ==
    /\ BatchStep
    /\ scan'.scanned = scan.scanned + 2 * Len(BatchOf(scan.symbols, scan.i + 1))

\* C15: a batch that raises an exception contributes zero results (and the
\* scan goes on to the later batches and to log_scan).  When the exception
\* comes from bulk_upsert or from the progress callback the results of the
\* batch are already in all_results.
C15_FailedBatchCountsNothing ==
    [][BatchRaised => scan'.all_results = scan.all_results]_vars

\* the last of the persisted results for the symbol of the k-th
LastPersisted(k) ==
    scan.persisted[CHOOSE j \in k..Len(scan.persisted) :
        /\ scan.persisted[j].symbol = scan.persisted[k].symbol
        /\ \A m \in (j + 1)..Len(scan.persisted) :
                scan.persisted[m].symbol # scan.persisted[k].symbol]

\* C16: the results of a batch are in the store when its iteration ends,
\* before any request for the next batch: at every point of the scan the
\* store holds, for every result whose bulk_upsert returned, the row of the
\* latest such result for its symbol.
C16_PersistedPerBatch ==
    ScanEntered =>
        \A k \in 1..Len(scan.persisted) :
            \E ts \in 0..MaxClock : UpsertParams(LastPersisted(k), ts) \in stocks

\* C16 witness: the first of two batches has been processed and its rows are
\* stored, the second has not been requested yet
C16_Witness ==
    /\ scan.pc = "loop"
    /\ scan.i = 1 /\ NumBatches(scan.total) = 2
    /\ scan.persisted # <<>>
    /\ stocks # atStart.stocks
    /\ \A k \in 1..Len(requests) :
            requests[k].endpoint \in {"assets", "sleep"}
                \/ requests[k].symbols = BatchOf(scan.symbols, 1)

\* C17: between any two consecutive snapshot or bars requests of one
\* run_scan the worker sleeps request_delay.  The only such sleep is the one
\* between the snapshot and the bars request of a batch: nothing is slept
\* between the last request of a batch and the first of the next.
C17_SleepBetweenRequests ==
    \A k \in 1..(Len(requests) - 1) :
        ~ /\ requests[k].endpoint \in {"snapshots", "bars"}
          /\ requests[k + 1].endpoint \in {"snapshots", "bars"}

-----------------------------------------------------------------------------
(* The convenience views of ScannerDB: database.py.                        *)
(* A view is the set of the lists the SELECT may return: rows that compare *)
(* equal under ORDER BY come in any order.  A null sort key sorts last     *)
(* under DESC.  Volumes are in shares.                                     *)

liquidity_floor == 100000

\* the sort key of a column value under ORDER BY ... DESC
NullsLast(v) == IF v = NULL THEN -1000000000 ELSE v[1]

\* ORDER BY keyOf DESC LIMIT limit over rows; keyOf is a function on rows
TopBy(rows, keyOf, limit) ==
    LET n == Min(limit, Cardinality(rows))
    IN  {q \in [1..n -> rows] :
            /\ \A i, j \in 1..n : i < j => (q[i] # q[j] /\ keyOf[q[i]] >= keyOf[q[j]])
            /\ \A r \in rows : (\A i \in 1..n : q[i] # r) =>
                    \A i \in 1..n : keyOf[r] <= keyOf[q[i]]}

\* if market_cap_category: query += " AND market_cap_category = ?"
CategoryOk(r, market_cap_category) ==
    \/ market_cap_category = NULL \/ market_cap_category = Some("")
    \/ r.market_cap_category = market_cap_category

\* a mutant: the threshold is not applied
UnusualVolumeAnyRvol(table, min_rvol, limit, market_cap_category) ==
    LET rows == {r \in table : /\ r.relative_volume # NULL
                               /\ VolumeAbove(r, liquidity_floor)
                               /\ CategoryOk(r, market_cap_category)}
    IN  TopBy(rows, [r \in rows |-> NullsLast(r.relative_volume)], limit)

get_unusual_volume(table, min_rvol, limit, market_cap_category) ==
    LET rows == {r \in table : /\ Ge(r.relative_volume, min_rvol)
                               /\ VolumeAbove(r, liquidity_floor)
                               /\ CategoryOk(r, market_cap_category)}
    IN  TopBy(rows, [r \in rows |-> NullsLast(r.relative_volume)], limit)

\* a mutant: the sign of the change is not looked at
GainersOfAnySign(table, limit, min_volume, market_cap_category) ==
    LET rows == {r \in table : /\ r.change_percent # NULL
                               /\ Ge(r.volume, min_volume)
                               /\ CategoryOk(r, market_cap_category)}
    IN  TopBy(rows, [r \in rows |-> NullsLast(r.change_percent)], limit)

get_top_gainers(table, limit, min_volume, market_cap_category) ==
    LET rows == {r \in table : /\ Gt(r.change_percent, 0)
                               /\ Ge(r.volume, min_volume)
                               /\ CategoryOk(r, market_cap_category)}
    IN  TopBy(rows, [r \in rows |-> NullsLast(r.change_percent)], limit)

get_top_losers(table, limit, min_volume, market_cap_category) ==
    LET rows == {r \in table : /\ Lt(r.change_percent, 0)
                               /\ Ge(r.volume, min_volume)
                               /\ CategoryOk(r, market_cap_category)}
    IN  TopBy(rows, [r \in rows |-> -r.change_percent[1]], limit)

get_near_52w_high(table, max_distance, limit, market_cap_category) ==
    LET rows == {r \in table : /\ Ge(r.distance_from_52w_high, -max_distance)
                               /\ Le(r.distance_from_52w_high, 0)
                               /\ VolumeAbove(r, liquidity_floor)
                               /\ CategoryOk(r, market_cap_category)}
    IN  TopBy(rows, [r \in rows |-> NullsLast(r.distance_from_52w_high)], limit)

get_near_52w_low(table, max_distance, limit, market_cap_category) ==
    LET rows == {r \in table : /\ Le(r.distance_from_52w_low, max_distance)
                               /\ Ge(r.distance_from_52w_low, 0)
                               /\ VolumeAbove(r, liquidity_floor)
                               /\ CategoryOk(r, market_cap_category)}
    IN  TopBy(rows, [r \in rows |-> -r.distance_from_52w_low[1]], limit)

valid_sorts == {"change_percent", "relative_volume", "volume", "market_cap"}

\* a mutant: a sort_by outside the list falls back to volume
BySectorFallbackVolume(table, sector, limit, sort_by) ==
    LET column == IF sort_by \notin valid_sorts THEN "volume" ELSE sort_by
        rows == {r \in table : r.sector = Some(sector) /\ VolumeAbove(r, liquidity_floor)}
    IN  TopBy(rows, [r \in rows |-> NullsLast(r[column])], limit)

get_by_sector(table, sector, limit, sort_by) ==
    LET column == IF sort_by \notin valid_sorts THEN "change_percent" ELSE sort_by
        rows == {r \in table : r.sector = Some(sector) /\ VolumeAbove(r, liquidity_floor)}
    IN  TopBy(rows, [r \in rows |-> NullsLast(r[column])], limit)

get_most_active(table, limit) ==
    LET rows == {r \in table : VolumeAbove(r, 0)}
    IN  TopBy(rows, [r \in rows |-> NullsLast(r.volume)], limit)

\* SELECT *, ABS(change_percent) as abs_change
WithAbsChange(r) ==
    r @@ [abs_change |-> IF r.change_percent = NULL THEN NULL
                         ELSE Some(Abs(r.change_percent[1]))]

\* a mutant: no volume floor
MostVolatileOfAll(table, limit) ==
    LET rows == {WithAbsChange(r) : r \in table}
    IN  TopBy(rows, [r \in rows |-> NullsLast(r.abs_change)], limit)

get_most_volatile(table, limit) ==
    LET rows == {WithAbsChange(r) : r \in {x \in table : VolumeAbove(x, liquidity_floor)}}
    IN  TopBy(rows, [r \in rows |-> NullsLast(r.abs_change)], limit)

\* search_stocks called with no filter
NoFilter ==
    [min_price |-> NULL, max_price |-> NULL, min_volume |-> NULL, min_rvol |-> NULL,
     max_rvol |-> NULL, min_change |-> NULL, max_change |-> NULL,
     market_cap_category |-> NULL, sector |-> NULL]

\* a mutant: the upper end of the price range is not applied
SearchWithoutMaxPrice(table, f, limit) ==
    LET rows == {r \in table :
                    /\ f.min_price # NULL => Ge(r.price, f.min_price[1])
                    /\ f.min_volume # NULL => Ge(r.volume, f.min_volume[1])
                    /\ f.min_rvol # NULL => Ge(r.relative_volume, f.min_rvol[1])
                    /\ f.max_rvol # NULL => Le(r.relative_volume, f.max_rvol[1])
                    /\ f.min_change # NULL => Ge(r.change_percent, f.min_change[1])
                    /\ f.max_change # NULL => Le(r.change_percent, f.max_change[1])
                    /\ CategoryOk(r, f.market_cap_category)
                    /\ (f.sector = NULL \/ f.sector = Some("") \/ r.sector = f.sector)}
    IN  TopBy(rows, [r \in rows |-> NullsLast(r.relative_volume)], limit)

\* the numeric filters are tested with `is not None`, the category and the
\* sector for truthiness; the conditions are joined by AND after WHERE 1=1
search_stocks(table, f, limit) ==
    LET rows == {r \in table :
                    /\ f.min_price # NULL => Ge(r.price, f.min_price[1])
                    /\ f.max_price # NULL => Le(r.price, f.max_price[1])
                    /\ f.min_volume # NULL => Ge(r.volume, f.min_volume[1])
                    /\ f.min_rvol # NULL => Ge(r.relative_volume, f.min_rvol[1])
                    /\ f.max_rvol # NULL => Le(r.relative_volume, f.max_rvol[1])
                    /\ f.min_change # NULL => Ge(r.change_percent, f.min_change[1])
                    /\ f.max_change # NULL => Le(r.change_percent, f.max_change[1])
                    /\ CategoryOk(r, f.market_cap_category)
                    /\ (f.sector = NULL \/ f.sector = Some("") \/ r.sector = f.sector)}
    IN  TopBy(rows, [r \in rows |-> NullsLast(r.relative_volume)], limit)

-----------------------------------------------------------------------------
(* SpecQuery: one call of a view on a stocks table *)

\* what upsert_stock may have been given for a symbol: volumes above, at and
\* below 100000, gains that tie, losses, and a dict with little in it
QueryShapes ==
    {[price |-> Some(15000), change_percent |-> Some(500), volume |-> Some(200000),
      relative_volume |-> Some(300), market_cap |-> Some(9), market_cap_category |-> Some("large"), sector |-> Some("Tech"),
      distance_from_52w_high |-> Some(-100), distance_from_52w_low |-> Some(4000)],
     [price |-> Some(400), change_percent |-> Some(500), volume |-> Some(100000),
      relative_volume |-> Some(200), market_cap_category |-> Some("large"), sector |-> Some("Tech"),
      distance_from_52w_high |-> Some(-300), distance_from_52w_low |-> Some(2000)],
     [price |-> Some(60000), change_percent |-> Some(-300), volume |-> Some(150000),
      relative_volume |-> Some(150), market_cap |-> Some(2), market_cap_category |-> Some("small"), sector |-> Some("Tech"),
      distance_from_52w_high |-> Some(-2000), distance_from_52w_low |-> Some(500)],
     [price |-> Some(2000), change_percent |-> Some(200), volume |-> Some(50),
      relative_volume |-> Some(900), market_cap_category |-> Some("small"), sector |-> Some("Tech"),
      distance_from_52w_high |-> Some(-100), distance_from_52w_low |-> Some(100)],
     [price |-> Some(500), change_percent |-> Some(-700), volume |-> Some(100001),
      relative_volume |-> Some(200), market_cap |-> Some(5), market_cap_category |-> Some("large"), sector |-> Some("Energy"),
      distance_from_52w_high |-> Some(-4000), distance_from_52w_low |-> Some(0)],
     [volume |-> Some(300000), sector |-> Some("Tech")]}

QueryTables ==
    {{UpsertParams([symbol |-> Some(sym)] @@ pick[sym][1], 0) :
            sym \in {x \in IndSymbols : pick[x] # NULL}} :
        pick \in [IndSymbols -> {NULL} \cup {Some(sh) : sh \in QueryShapes}]}

Limits == 1..MaxLimit
Categories == {NULL, Some("large")}

\* the filters search_stocks is called with: none, those of the /api/scan
\* endpoint, a range of relative volume, a range of change, a category with
\* a sector, and empty strings with a price floor of 0
Searches ==
    {NoFilter,
     [NoFilter EXCEPT !.min_price = Some(500), !.max_price = Some(50000),
                      !.min_volume = Some(100000)],
     [NoFilter EXCEPT !.min_rvol = Some(200), !.max_rvol = Some(300)],
     [NoFilter EXCEPT !.min_change = Some(-300), !.max_change = Some(200)],
     [NoFilter EXCEPT !.market_cap_category = Some("large"), !.sector = Some("Tech")],
     [NoFilter EXCEPT !.market_cap_category = Some(""), !.sector = Some(""),
                      !.min_price = Some(0)]}

\* the calls followed
Queries ==
    [view : {"get_unusual_volume"}, min_rvol : {150, 200, 250}, limit : Limits,
     market_cap_category : Categories]
    \cup [view : {"get_top_gainers", "get_top_losers"}, limit : Limits,
          min_volume : {0, 100000}, market_cap_category : Categories]
    \cup [view : {"get_near_52w_high"}, max_distance : {500}, limit : Limits,
          market_cap_category : Categories]
    \cup [view : {"get_near_52w_low"}, max_distance : {1000}, limit : Limits,
          market_cap_category : Categories]
    \cup [view : {"get_by_sector"}, sector : {"Tech"}, limit : Limits,
          sort_by : valid_sorts \cup {"symbol; DROP TABLE stocks"}]
    \cup [view : {"get_most_active", "get_most_volatile"}, limit : Limits]
    \cup [view : {"search_stocks"}, filters : Searches, limit : Limits]

\* the lists the call q may return on table
Answers(q, table) ==
    CASE q.view = "get_unusual_volume" ->
            get_unusual_volume(table, q.min_rvol, q.limit, q.market_cap_category)
      [] q.view = "get_top_gainers" ->
            get_top_gainers(table, q.limit, q.min_volume, q.market_cap_category)
      [] q.view = "get_top_losers" ->
            get_top_losers(table, q.limit, q.min_volume, q.market_cap_category)
      [] q.view = "get_near_52w_high" ->
            get_near_52w_high(table, q.max_distance, q.limit, q.market_cap_category)
      [] q.view = "get_near_52w_low" ->
            get_near_52w_low(table, q.max_distance, q.limit, q.market_cap_category)
      [] q.view = "get_by_sector" -> get_by_sector(table, q.sector, q.limit, q.sort_by)
      [] q.view = "get_most_active" -> get_most_active(table, q.limit)
      [] q.view = "get_most_volatile" -> get_most_volatile(table, q.limit)
      [] q.view = "search_stocks" -> search_stocks(table, q.filters, q.limit)

InitQuery ==
    /\ stocks \in QueryTables
    /\ scan_metadata = <<>> /\ market_indicators = <<>> /\ replaced = {}
    /\ now = 0
    /\ InitScanIdle /\ InitSched
    /\ batchIn \in Queries
    /\ batchOut = NULL

QueryCall ==
    /\ batchOut = NULL
    /\ \E out \in Answers(batchIn, stocks) : batchOut' = Some(out)
    /\ UNCHANGED <<batchIn, storeVars, scanVars, schedVars>>

NextQuery == QueryCall

SpecQuery == InitQuery /\ [][NextQuery]_vars

-----------------------------------------------------------------------------
(* Claims about the views *)

Called(views) == batchOut # NULL /\ batchIn.view \in views
Answer == batchOut[1]

\* the list is in non-increasing order of keyOf, and no row of rows left out
\* of it has a larger key than a row in it
TopSorted(list, rows, keyOf) ==
    /\ \A i, j \in 1..Len(list) : i < j => keyOf[list[i]] >= keyOf[list[j]]
    /\ \A r \in rows : (\A i \in 1..Len(list) : list[i] # r) =>
            \A i \in 1..Len(list) : keyOf[r] <= keyOf[list[i]]

\* C18 (as amended): the rows of the unusual-volume, near-high, near-low,
\* by-sector and most-volatile views have a volume above 100000; those of
\* top gainers and top losers a volume of at least min_volume, whatever the
\* caller passes; those of most-active a volume above 0.
C18_VolumeFloors ==
    /\ Called({"get_unusual_volume", "get_near_52w_high", "get_near_52w_low",
               "get_by_sector", "get_most_volatile"}) =>
            \A i \in 1..Len(Answer) : Answer[i].volume[1] > liquidity_floor
    /\ Called({"get_top_gainers", "get_top_losers"}) =>
            \A i \in 1..Len(Answer) : Answer[i].volume[1] >= batchIn.min_volume
    /\ Called({"get_most_active"}) =>
            \A i \in 1..Len(Answer) : Answer[i].volume[1] > 0

\* C18 witness: most-active has returned a row whose volume is 50
C18_Witness ==
    /\ Called({"get_most_active"})
    /\ \E i \in 1..Len(Answer) : Answer[i].volume = Some(50)

\* C18 as stated: no view returns a row whose volume is at or below the floor
C18_Original ==
    batchOut # NULL => \A i \in 1..Len(Answer) : Answer[i].volume[1] > liquidity_floor

\* C19: get_top_gainers returns at most limit rows, all with change_percent
\* > 0, volume >= min_volume and the category if one is given, in
\* non-increasing order of change_percent, and no qualifying row left out
\* has a larger change_percent than a returned one; get_top_losers is the
\* mirror image (change_percent < 0, non-decreasing).
C19_TopMovers ==
    Called({"get_top_gainers", "get_top_losers"}) =>
        LET sign == IF batchIn.view = "get_top_gainers" THEN 1 ELSE -1
            qualifies(r) ==
                /\ r.change_percent # NULL /\ sign * r.change_percent[1] > 0
                /\ r.volume # NULL /\ r.volume[1] >= batchIn.min_volume
                /\ batchIn.market_cap_category # NULL =>
                        r.market_cap_category = batchIn.market_cap_category
            rows == {r \in stocks : qualifies(r)}
        IN  /\ Len(Answer) <= batchIn.limit
            /\ \A i \in 1..Len(Answer) : Answer[i] \in rows
            /\ TopSorted(Answer, rows, [r \in rows |-> sign * r.change_percent[1]])

\* C19 witness: three gainers qualify, two of them tie, and two are returned
C19_Witness ==
    /\ Called({"get_top_gainers"})
    /\ batchIn.limit = 2 /\ batchIn.min_volume = 0
    /\ Len(Answer) = 2
    /\ Cardinality({r \in stocks : Gt(r.change_percent, 0)}) = 3
    /\ Answer[1].change_percent = Some(500)

\* C20: get_unusual_volume returns exactly the rows with relative_volume >=
\* min_rvol and volume > 100000 (of the category if one is given), cut to
\* limit, in non-increasing order of relative_volume.
C20_UnusualVolume ==
    Called({"get_unusual_volume"}) =>
        LET qualifies(r) ==
                /\ r.relative_volume # NULL /\ r.relative_volume[1] >= batchIn.min_rvol
                /\ r.volume # NULL /\ r.volume[1] > liquidity_floor
                /\ batchIn.market_cap_category # NULL =>
                        r.market_cap_category = batchIn.market_cap_category
            rows == {r \in stocks : qualifies(r)}
        IN  /\ Len(Answer) = Min(batchIn.limit, Cardinality(rows))
            /\ \A i \in 1..Len(Answer) : Answer[i] \in rows
            /\ \A i, j \in 1..Len(Answer) : i < j => Answer[i] # Answer[j]
            /\ TopSorted(Answer, rows, [r \in rows |-> r.relative_volume[1]])

\* C20 witness: a row below the threshold and a row under the volume floor
\* are in the table, and the call returned the one row that qualifies
C20_Witness ==
    /\ Called({"get_unusual_volume"})
    /\ batchIn.min_rvol = 200
    /\ Len(Answer) = 1
    /\ \E r \in stocks : r.relative_volume = Some(150) /\ r.volume = Some(150000)
    /\ \E r \in stocks : r.relative_volume = Some(900) /\ r.volume = Some(50)

-----------------------------------------------------------------------------
(* More claims about the indicators (SpecInd) *)

\* the rows of table whose change_percent passes test and whose volume is
\* above floor
BreadthRows(table, floor, test(_)) ==
    {r \in table : test(r.change_percent) /\ VolumeAbove(r, floor)}

\* C21: the breadth counts stored by calculate_and_store_indicators are the
\* numbers of rows with change_percent > 0, < 0 and = 0 that pass the
\* liquidity floor of the query views (volume > 100000).  The counts are
\* taken over volume > 10000, so a row between the two floors is counted in
\* breadth and left out of the views.
C21_BreadthAtViewFloor ==
    \A i \in 1..Len(market_indicators) :
        LET row == market_indicators[i]
            up(c) == Gt(c, 0)
            down(c) == Lt(c, 0)
            flat(c) == c = Some(0)
        IN  /\ row.advancing = Cardinality(BreadthRows(stocks, liquidity_floor, up))
            /\ row.declining = Cardinality(BreadthRows(stocks, liquidity_floor, down))
            /\ row.unchanged = Cardinality(BreadthRows(stocks, liquidity_floor, flat))

\* part / whole * 100 as an exact quotient, 50 where whole is zero
Share(part, whole) == IF whole > 0 THEN <<100 * part, whole>> ELSE <<50, 1>>

\* the four sub-components of a stored row, from the counts stored with it
SharesOf(row) ==
    <<Share(row.advancing, row.advancing + row.declining + row.unchanged),
      Share(row.up_volume, row.total_volume),
      Share(row.gainers_3pct, row.gainers_3pct + row.losers_3pct),
      Share(row.new_highs, row.new_lows + row.new_highs)>>

\* the equal-weighted average of four quotients, as <<numerator, denominator>>
Average(q) ==
    <<q[1][1] * q[2][2] * q[3][2] * q[4][2] + q[2][1] * q[1][2] * q[3][2] * q[4][2]
        + q[3][1] * q[1][2] * q[2][2] * q[4][2] + q[4][1] * q[1][2] * q[2][2] * q[3][2],
      4 * q[1][2] * q[2][2] * q[3][2] * q[4][2]>>

\* every denominator of the four sub-components of row is positive
AllDefined(row) ==
    /\ row.advancing + row.declining + row.unchanged > 0
    /\ row.total_volume > 0
    /\ row.gainers_3pct + row.losers_3pct > 0
    /\ row.new_highs + row.new_lows > 0

\* the label goes with the score alone, by the five bands
LabelByScore(row) ==
    /\ row.fear_greed_label = "Extreme Fear" <=> row.fear_greed_score <= 20
    /\ row.fear_greed_label = "Fear"
            <=> (20 < row.fear_greed_score /\ row.fear_greed_score <= 40)
    /\ row.fear_greed_label = "Neutral"
            <=> (40 < row.fear_greed_score /\ row.fear_greed_score <= 60)
    /\ row.fear_greed_label = "Greed"
            <=> (60 < row.fear_greed_score /\ row.fear_greed_score <= 80)
    /\ row.fear_greed_label = "Extreme Greed" <=> row.fear_greed_score > 80

\* C22 (as amended): the stored score is the equal-weighted average of the
\* four sub-components rounded to an integer (it is within 1/2 of the
\* average), where a sub-component is part/whole*100 and 50 where its
\* denominator is zero; the stored label is determined by the stored score
\* alone, by the bands <= 20, <= 40, <= 60, <= 80, > 80.
C22_CompositeAndLabel ==
    \A i \in 1..Len(market_indicators) :
        LET row == market_indicators[i]
            avg == Average(SharesOf(row))
        IN  /\ 2 * Abs(row.fear_greed_score * avg[2] - avg[1]) <= avg[2]
            /\ LabelByScore(row)

\* C22 witness: a stored row, all four denominators positive, whose average
\* is not an integer
C22_Witness ==
    \E i \in 1..Len(market_indicators) :
        LET row == market_indicators[i]
            avg == Average(SharesOf(row))
        IN  /\ AllDefined(row)
            /\ avg[1] % avg[2] # 0
            /\ row.fear_greed_label = "Neutral"

\* C22 as stated: where the four quotients are defined, the stored score
\* equals their average
C22_Original ==
    \A i \in 1..Len(market_indicators) :
        LET row == market_indicators[i]
            avg == Average(SharesOf(row))
        IN  /\ AllDefined(row) => row.fear_greed_score * avg[2] = avg[1]
            /\ LabelByScore(row)

\* C23 (as amended): the stored volume_ratio is up_volume/down_volume rounded
\* to three decimals when down_volume > 0 (it is within half a thousandth of
\* the quotient), and the sentinel 10.0 when down_volume is 0, also when
\* up_volume is 0 too; the quotient is taken only under down_volume > 0.
C23_VolumeRatio ==
    \A i \in 1..Len(market_indicators) :
        LET row == market_indicators[i]
        IN  /\ row.down_volume > 0 =>
                2 * Abs(row.volume_ratio * row.down_volume - 1000 * row.up_volume)
                    <= row.down_volume
            /\ row.down_volume = 0 => row.volume_ratio = 10000

\* C23 witness: a snapshot with volume on the way up and none on the way
\* down stores the sentinel
C23_Witness ==
    \E i \in 1..Len(market_indicators) :
        /\ market_indicators[i].down_volume = 0
        /\ market_indicators[i].up_volume > 0
        /\ market_indicators[i].volume_ratio = 10000

\* C23 as stated: the stored volume_ratio equals up_volume/down_volume
C23_Original ==
    \A i \in 1..Len(market_indicators) :
        LET row == market_indicators[i]
        IN  /\ row.down_volume > 0 =>
                row.volume_ratio * row.down_volume = 1000 * row.up_volume
            /\ row.down_volume = 0 => row.volume_ratio = 10000

-----------------------------------------------------------------------------
(* ScannerDB.get_indicator_history and SpecHist: the scan log and the      *)
(* indicator series under the store's operations.                          *)

\* the columns get_indicator_history selects
HistoryCols ==
    {"timestamp", "fear_greed_score", "fear_greed_label", "advancing", "declining",
     "ad_ratio", "volume_ratio"}

\* a mutant: ORDER BY id ASC
HistoryOldestFirst(table, limit) ==
    LET n == IF limit < 0 THEN Len(table) ELSE Min(limit, Len(table))
    IN  [i \in 1..n |-> [c \in HistoryCols |-> table[i][c]]]

\* get_indicator_history(limit): ORDER BY id DESC LIMIT ? (a negative LIMIT
\* is no limit)
get_indicator_history(table, limit) ==
    LET n == IF limit < 0 THEN Len(table) ELSE Min(limit, Len(table))
    IN  [i \in 1..n |-> [c \in HistoryCols |-> table[Len(table) + 1 - i][c]]]

\* what upsert_stock is given here: a gainer and a loser
HistDatas ==
    {[symbol |-> Some("AAA"), change_percent |-> Some(400), volume |-> Some(60000)],
     [symbol |-> Some("AAA"), change_percent |-> Some(-400), volume |-> Some(20000)]}

InitHist == InitStore /\ InitBatchIdle /\ InitScanIdle /\ InitSched

HistUpsert ==
    /\ batchOut = NULL
    /\ \E d \in HistDatas : upsert_stock(d)
    /\ UNCHANGED <<batchVars, scanVars, schedVars>>

HistLogScan ==
    /\ batchOut = NULL
    /\ Len(scan_metadata) < MaxScans
    /\ log_scan("alpaca_full", now, now, 1, Cardinality(stocks))
    /\ UNCHANGED <<batchVars, scanVars, schedVars>>

HistCalculate ==
    /\ batchOut = NULL
    /\ Len(market_indicators) < MaxSnapshots
    /\ calculate_and_store_indicators
    /\ UNCHANGED <<batchVars, scanVars, schedVars>>

\* the history is read once, after the writes
HistQuery ==
    /\ batchOut = NULL
    /\ \E limit \in Limits :
        /\ batchIn' = [view |-> "get_indicator_history", limit |-> limit]
        /\ batchOut' = Some(get_indicator_history(market_indicators, limit))
    /\ UNCHANGED <<storeVars, scanVars, schedVars>>

NextHist == HistUpsert \/ HistLogScan \/ HistCalculate \/ HistQuery

SpecHist == InitHist /\ [][NextHist]_vars

\* s is t with rows appended
Extends(t, s) == Len(t) >= Len(s) /\ SubSeq(t, 1, Len(s)) = s

\* C24: the scan log and the indicator series are append-only: no
\* operation of the store changes or removes a row of scan_metadata or
\* market_indicators; log_scan and calculate_and_store_indicators add
\* exactly one row each, to their own table; and get_indicator_history(limit)
\* returns the min(limit, row count) most recently appended indicator rows,
\* newest first.
C24_AppendOnly ==
    /\ [][/\ Extends(scan_metadata', scan_metadata)
          /\ Extends(market_indicators', market_indicators)
          /\ HistLogScan => /\ Len(scan_metadata') = Len(scan_metadata) + 1
                            /\ market_indicators' = market_indicators
          /\ HistCalculate => /\ Len(market_indicators') = Len(market_indicators) + 1
                              /\ scan_metadata' = scan_metadata
          /\ HistUpsert => /\ scan_metadata' = scan_metadata
                           /\ market_indicators' = market_indicators]_vars
    /\ [](batchOut # NULL =>
            LET out == batchOut[1]
                n == Len(market_indicators)
            IN  /\ Len(out) = Min(batchIn.limit, n)
                /\ \A i \in 1..Len(out) :
                    \A c \in HistoryCols : out[i][c] = market_indicators[n + 1 - i][c])

\* C24 witness: two differing snapshots are stored and a history of limit 1
\* has returned the later one
C24_Witness ==
    /\ batchOut # NULL
    /\ batchIn.limit = 1
    /\ Len(market_indicators) = 2
    /\ Len(scan_metadata) >= 1
    /\ market_indicators[1].advancing # market_indicators[2].advancing
    /\ Len(batchOut[1]) = 1
    /\ batchOut[1][1].advancing = market_indicators[2].advancing

-----------------------------------------------------------------------------
(* More claims about _process_batch (SpecBatch) *)

\* C25 (as amended): the three flags are taken from the values before they
\* are rounded and stored, so against the values stored in the same row:
\* is_unusual_volume implies relative_volume >= 2.0 and relative_volume > 2.0
\* implies is_unusual_volume; is_near_high implies a distance_from_52w_high
\* that is >= -5 or null, and a distance > -5 implies is_near_high;
\* is_near_low implies a distance_from_52w_low that is <= 10 or null, and a
\* distance < 10 implies is_near_low; a distance of exactly 0 is stored as
\* null next to a stored extreme, and the flag is then true; without a stored
\* week_52_high is_near_high is false.
C25_FlagsAgainstStored ==
    batchOut # NULL =>
        \A i \in 1..Len(Results) :
            LET r == Results[i]
                unusual == r.is_unusual_volume = Some(TRUE)
                near_high == r.is_near_high = Some(TRUE)
                near_low == r.is_near_low = Some(TRUE)
            IN  /\ unusual => Ge(r.relative_volume, 200)
                /\ Gt(r.relative_volume, 200) => unusual
                /\ near_high => (r.distance_from_52w_high = NULL \/ Ge(r.distance_from_52w_high, -500))
                /\ Gt(r.distance_from_52w_high, -500) => near_high
                /\ (r.distance_from_52w_high = NULL /\ r.week_52_high # NULL) => near_high
                /\ r.week_52_high = NULL => ~near_high
                /\ near_low => (r.distance_from_52w_low = NULL \/ Le(r.distance_from_52w_low, 1000))
                /\ Lt(r.distance_from_52w_low, 1000) => near_low
                /\ (r.distance_from_52w_low = NULL /\ r.week_52_low # NULL) => near_low

\* C25 witness: a row whose relative volume of 1.996 is stored as 2.0 and
\* which is not flagged
C25_Witness ==
    /\ batchOut # NULL
    /\ \E i \in 1..Len(Results) :
        /\ Results[i].relative_volume = Some(200)
        /\ Results[i].is_unusual_volume = Some(FALSE)
        /\ Results[i].volume = Some(499)

\* C25 as stated: each flag is true exactly when the value stored in the
\* same row passes its threshold
C25_Original ==
    batchOut # NULL =>
        \A i \in 1..Len(Results) :
            LET r == Results[i]
            IN  /\ r.is_unusual_volume = Some(TRUE) <=> Ge(r.relative_volume, 200)
                /\ r.is_near_high = Some(TRUE) <=> Ge(r.distance_from_52w_high, -500)
                /\ r.is_near_low = Some(TRUE) <=> Le(r.distance_from_52w_low, 1000)

\* the bars returned for a symbol
BarsFor(sym) == GetOr(_get_bars_bulk(batchIn.barsResps), sym, <<>>)

\* C26: for a symbol whose snapshot is returned and for which no historical
\* bars are returned, the row has week_52_high and week_52_low equal to the
\* price and both distances equal to 0.  The distances are stored as null:
\* the row is built with `round(d, 2) if d else None`, and 0.0 is falsy.
C26_NoBarsFallback ==
    batchOut # NULL =>
        \A i \in 1..Len(Results) :
            LET r == Results[i]
            IN  BarsFor(r.symbol[1]) = <<>> =>
                    /\ r.week_52_high = r.price
                    /\ r.week_52_low = r.price
                    /\ r.distance_from_52w_high = Some(0)
                    /\ r.distance_from_52w_low = Some(0)

RECURSIVE UsableSymbols(_, _)
\* the symbols of syms with a usable snapshot in body, in order
UsableSymbols(body, syms) ==
    IF syms = <<>> THEN <<>>
    ELSE (IF Usable(body, Head(syms)) THEN <<Head(syms)>> ELSE <<>>)
            \o UsableSymbols(body, Tail(syms))

\* C27: a symbol whose snapshot is missing, incomplete (no daily bar, no
\* previous bar, no price, a zero previous close) or raises while it is
\* parsed is skipped without aborting the batch: the results are the rows of
\* the symbols with a usable snapshot, every one of them, in order; and no
\* row comes from a zero previous close.
C27_BadSymbolSkipped ==
    (batchOut # NULL /\ SnapshotOk) =>
        LET body == batchIn.snapResps[LastResp(batchIn.snapResps)].body
        IN  /\ [i \in 1..Len(Results) |-> Results[i].symbol[1]]
                    = UsableSymbols(body, batchIn.symbols)
            /\ \A i \in 1..Len(Results) :
                    body[Results[i].symbol[1]].prevDailyBar.c[1] # 0

\* C27 witness: AAA's snapshot raises while it is parsed, and BBB after it
\* yields its row
C27_Witness ==
    /\ batchOut # NULL
    /\ SnapshotOk
    /\ batchIn.symbols = <<"AAA", "BBB">>
    /\ LET body == batchIn.snapResps[LastResp(batchIn.snapResps)].body
       IN  /\ DOMAIN body = {"AAA", "BBB"}
           /\ IsStr(body["AAA"].dailyBar)
    /\ Len(Results) = 1
    /\ Results[1].symbol = Some("BBB")

-----------------------------------------------------------------------------
(* More claims about run_scan (SpecScan) *)

\* the requests of the scan to an endpoint, in order
RequestsTo(endpoint) == SelectSeq(requests, LAMBDA q : q.endpoint = endpoint)

RECURSIVE Concat(_)
\* the symbol lists of a sequence of requests, joined
Concat(qs) == IF qs = <<>> THEN <<>> ELSE Head(qs).symbols \o Concat(Tail(qs))

\* C28: run_scan partitions the filtered symbol list into consecutive
\* batches of at most batch_size symbols: the snapshot requests of a scan,
\* joined in order, are a prefix of the filtered list and, once the scan has
\* returned, the whole of it (every occurrence in exactly one batch, order
\* kept); no batch is empty or longer than batch_size and only the last may
\* be shorter; every bars request is for the batch of the snapshot request
\* before it; an empty filtered list yields no batch and no snapshot or bars
\* request.
C28_BatchesPartition ==
    ScanEntered =>
        LET snaps == RequestsTo("snapshots")
            joined == Concat(snaps)
        IN  /\ Len(joined) <= Len(scan.symbols)
            /\ joined = SubSeq(scan.symbols, 1, Len(joined))
            /\ ScanReturned => joined = scan.symbols
            /\ \A k \in 1..Len(snaps) :
                /\ Len(snaps[k].symbols) \in 1..BatchSize
                /\ Len(snaps[k].symbols) < BatchSize =>
                        /\ k = Len(snaps)
                        /\ joined = scan.symbols
            /\ \A k \in 1..Len(requests) :
                requests[k].endpoint = "bars" =>
                    /\ k > 2
                    /\ requests[k - 2].endpoint = "snapshots"
                    /\ requests[k - 2].symbols = requests[k].symbols
            /\ scan.symbols = <<>> => (RequestsTo("snapshots") = <<>> /\ RequestsTo("bars") = <<>>)

\* C28 witness: a filtered list of batch_size + 1 symbols, one of them
\* twice, went out as a full batch and a shorter last one
C28_Witness ==
    /\ ScanReturned
    /\ scan.requested = <<"AAA", "AAA", "BBB">>
    /\ Len(scan.symbols) = BatchSize + 1
    /\ Len(RequestsTo("snapshots")) = 2
    /\ Len(RequestsTo("snapshots")[1].symbols) = BatchSize
    /\ Len(RequestsTo("snapshots")[2].symbols) = 1

\* the asset listing was asked for and nothing came of it
FetchFailed ==
    /\ ScanEntered
    /\ RequestsTo("assets") # <<>>
    /\ scan.asset_info = EmptyDict

\* C30: when the asset-listing fetch fails at the start of run_scan, every
\* requested symbol is filtered out, the loop has no batch to run, no
\* snapshot or bars request is made and no stocks row is changed; the scan
\* that returns has appended one scan_metadata row, with stocks_scanned = 0
\* and stocks_with_data = 0.
C30_FailedListing ==
    FetchFailed =>
        /\ scan.symbols = <<>>
        /\ scan.total = 0
        /\ scan.pc = "loop" => scan.i = NumBatches(scan.total)
        /\ RequestsTo("snapshots") = <<>> /\ RequestsTo("bars") = <<>>
        /\ stocks = atStart.stocks
        /\ scan.pc # "returned" => scan_metadata = atStart.scan_metadata
        /\ scan.pc = "returned" =>
            /\ scan_metadata = Append(atStart.scan_metadata, Last(scan_metadata))
            /\ Last(scan_metadata).stocks_with_data = 0
            /\ Last(scan_metadata).stocks_scanned = 0
            /\ scan.summary[1].status = "completed"

\* C30 witness: a scan of two symbols whose listing request failed has
\* returned, over a store that held rows
C30_Witness ==
    /\ FetchFailed
    /\ scan.pc = "returned"
    /\ scan.requested = <<"BBB", "AAA">>
    /\ stocks # {}
    /\ Len(scan_metadata) = 2

-----------------------------------------------------------------------------
(* SpecAssets: successive calls of _get_assets against the clock.  The     *)
(* hour the cache lives is CacheTtl ticks of the clock.                    *)

\* what the provider may answer to the listing request: the listings of
\* SpecScan, an empty listing, a server error, no answer
ListingResps == AssetResps \cup {Http(200, <<>>)}

InitAssets == InitStore /\ InitBatchIdle /\ InitScanIdle /\ InitSched

\* one call of _get_assets(); resp is the provider's answer if it is asked
AssetsCall ==
    /\ Len(requests) <= MaxScans
    /\ \E resp \in ListingResps :
        /\ batchIn' = [resp |-> resp, asked |-> ~CacheFresh]
        /\ batchOut' = Some(AssetsResult(resp))
        /\ cache' = AssetsCache(resp)
    /\ requests' = IF CacheFresh THEN requests
                   ELSE Append(requests, [endpoint |-> "assets", symbols |-> <<>>])
    /\ UNCHANGED <<storeVars, scan, atStart, schedVars>>

AssetsTick ==
    /\ now < MaxClock
    /\ now' = now + 1
    /\ UNCHANGED <<stocks, scan_metadata, market_indicators, replaced, batchVars, scanVars,
                   schedVars>>

NextAssets == AssetsCall \/ AssetsTick

SpecAssets == InitAssets /\ [][NextAssets]_vars

\* a non-empty listing was fetched less than an hour ago
WithinHour ==
    /\ cache.time # NULL
    /\ cache.symbols[1] # EmptyDict
    /\ now - cache.time[1] < CacheTtl

\* C29: after a successful non-empty fetch of the asset listing every
\* _get_assets call within the next hour returns the cached set without a
\* request to the provider; a call after the hour has passed issues a new
\* request; a fetch that fails (a non-200 answer or an exception) returns
\* the empty set and leaves the cached set and its timestamp unchanged; the
\* cache changes only by a fetch that succeeds, which stamps it with the time
\* of the fetch.
C29_ListingCache ==
    [][AssetsCall =>
        LET resp == batchIn'.resp
            ok == resp.kind = "http" /\ resp.status = 200
        IN  /\ WithinHour =>
                /\ batchOut' = cache.symbols
                /\ requests' = requests
                /\ cache' = cache
            /\ ~WithinHour =>
                /\ requests' = Append(requests, [endpoint |-> "assets", symbols |-> <<>>])
                /\ ~ok => (batchOut' = Some(EmptyDict) /\ cache' = cache)
                /\ ok => (cache'.time = Some(now) /\ cache'.symbols = batchOut')]_vars

\* C29 witness: the listing was fetched, fetched again after the hour, and
\* the call after that was answered from the cache
C29_Witness ==
    /\ batchIn # NULL
    /\ ~batchIn.asked
    /\ Len(requests) = 2
    /\ cache.time = Some(CacheTtl)
    /\ batchOut = cache.symbols

\* the snapshot request ended in a failure that is not a rate limit, or in
\* an answer without data
SnapshotFailed(resps) ==
    LET r == resps[LastResp(resps)]
    IN  \/ r.kind = "exception"
        \/ r.status # 200
        \/ r.body = EmptyDict

\* C31: when the snapshot request of a batch fails with an error that is not
\* a rate limit, or returns no data, the batch yields no result, the bars
\* request is not issued (the snapshot request is the only thing the batch
\* adds to the requests), and no row is upserted for the batch.
C31_FailedSnapshotSkipsBatch ==
    [][(ScanBatch /\ SnapshotFailed(Last(scan'.snapAnswers))) =>
            /\ scan'.all_results = scan.all_results
            /\ scan'.persisted = scan.persisted
            /\ requests' = Append(requests,
                    [endpoint |-> "snapshots", symbols |-> BatchOf(scan.symbols, scan.i + 1)])
            /\ stocks' = stocks]_vars

\* C31 witness: the second batch of a scan got a server error for its
\* snapshot request, after a first batch that wrote rows
C31_Witness ==
    /\ ScanReturned
    /\ Len(scan.snapAnswers) = 2
    /\ ~SnapshotFailed(scan.snapAnswers[1])
    /\ scan.snapAnswers[2] = <<Http(500, EmptyDict)>>
    /\ Len(scan.persisted) > 0
    /\ Last(requests).endpoint = "snapshots"

\* C37: the stocks_with_data that run_scan logs and returns is the number
\* of result rows the scan persisted to the stocks table.  The results of a
\* batch are appended to all_results before bulk_upsert is called, so a batch
\* whose bulk_upsert raised is counted all the same.
C37_WithDataIsPersisted ==
    ScanReturned =>
        /\ Last(scan_metadata).stocks_with_data = Len(scan.persisted)
        /\ scan.summary[1].stocks_with_data = Len(scan.persisted)

\* C38: the progress counter scanned grows by the length of the batch once
\* for each batch: it never exceeds total and equals total after the last
\* batch, also when bulk_upsert or the progress callback raises.  It is
\* incremented in the try block before those calls and again in the except
\* clause.
C38_ScannedOncePerBatch ==
    ScanEntered =>
        /\ scan.scanned <= scan.total
        /\ scan.scanned = Len(Concat(RequestsTo("snapshots")))
        /\ ScanReturned => scan.scanned = scan.total

-----------------------------------------------------------------------------
(* Claims about search_stocks and get_by_sector (SpecQuery) *)

\* the value of a column is there and lies between lo and hi, where an end
\* that is not given does not bind
Within(v, lo, hi) ==
    /\ (lo # NULL \/ hi # NULL) => v # NULL
    /\ lo # NULL => v[1] >= lo[1]
    /\ hi # NULL => v[1] <= hi[1]

\* the text is given and is not the empty string
Given(text) == text # NULL /\ text # Some("")

\* C32: search_stocks returns at most limit rows, each satisfying every
\* filter that was supplied (price range, volume floor, relative-volume
\* range, change range, category, sector), in non-increasing order of
\* relative_volume with the rows that have none last; a filter that is not
\* supplied removes no row: the answer is the first limit of all the rows
\* that satisfy the supplied filters.
C32_SearchFilters ==
    Called({"search_stocks"}) =>
        LET f == batchIn.filters
            qualifies(r) ==
                /\ Within(r.price, f.min_price, f.max_price)
                /\ Within(r.volume, f.min_volume, NULL)
                /\ Within(r.relative_volume, f.min_rvol, f.max_rvol)
                /\ Within(r.change_percent, f.min_change, f.max_change)
                /\ Given(f.market_cap_category) =>
                        r.market_cap_category = f.market_cap_category
                /\ Given(f.sector) => r.sector = f.sector
            rows == {r \in stocks : qualifies(r)}
            key(r) == IF r.relative_volume = NULL THEN -1 ELSE r.relative_volume[1]
        IN  /\ Len(Answer) = Min(batchIn.limit, Cardinality(rows))
            /\ \A i \in 1..Len(Answer) : Answer[i] \in rows
            /\ \A i, j \in 1..Len(Answer) : i < j => Answer[i] # Answer[j]
            /\ TopSorted(Answer, rows, [r \in rows |-> key(r)])

\* C32 witness: the filters of /api/scan kept one row of three (one is too
\* cheap and under the volume floor, one too expensive)
C32_Witness ==
    /\ Called({"search_stocks"})
    /\ batchIn.filters.max_price = Some(50000)
    /\ batchIn.limit = 2
    /\ Len(Answer) = 1
    /\ Cardinality(stocks) = 3
    /\ \E r \in stocks : r.price = Some(60000)
    /\ \E r \in stocks : r.price = Some(400)

\* the column a by-sector answer is ordered by
OrderedBy(list, rows, column) ==
    TopSorted(list, rows, [r \in rows |-> IF r[column] = NULL THEN -1000000000
                                          ELSE r[column][1]])

\* C40: get_by_sector orders by the requested column only when sort_by is
\* one of change_percent, relative_volume, volume, market_cap; any other
\* value is replaced by change_percent, so that the ORDER BY clause is only
\* ever built from one of those four names.
C40_SortWhitelist ==
    Called({"get_by_sector"}) =>
        LET rows == {r \in stocks : /\ r.sector = Some(batchIn.sector)
                                    /\ r.volume # NULL /\ r.volume[1] > liquidity_floor}
            column == IF batchIn.sort_by \in {"change_percent", "relative_volume",
                                              "volume", "market_cap"}
                      THEN batchIn.sort_by ELSE "change_percent"
        IN  /\ Len(Answer) = Min(batchIn.limit, Cardinality(rows))
            /\ \A i \in 1..Len(Answer) : Answer[i] \in rows
            /\ OrderedBy(Answer, rows, column)

\* C40 witness: a sort_by that is no column name was given, and the answer
\* came back ordered by change_percent, which is not its order by symbol
C40_Witness ==
    /\ Called({"get_by_sector"})
    /\ batchIn.sort_by \notin valid_sorts
    /\ Len(Answer) = 2
    /\ Answer[1].change_percent = Some(500) /\ Answer[2].change_percent = Some(-300)
    /\ Answer[1].symbol = Some("BBB") /\ Answer[2].symbol = Some("AAA")

-----------------------------------------------------------------------------
(* The flags of a scan against the near-high and near-low views (SpecBatch) *)

\* the stocks table after bulk_upsert of the results of the batch into an
\* empty table, with the volumes in shares as the views expect them
StoredResults ==
    BulkRows({}, [i \in 1..Len(Results) |->
                    [Results[i] EXCEPT !.volume = Some(@[1] * 100000)]],
             [i \in 1..Len(Results) |-> 0])

\* C33: every row a scan marks is_near_high is returned by
\* get_near_52w_high(max_distance=5) when it passes the liquidity floor and
\* the limit is not reached, and every row marked is_near_low by
\* get_near_52w_low(max_distance=10); a symbol exactly at its band high
\* (distance 0) is in the near-high view.  The views compare the stored
\* distance, which is null for a distance of exactly 0.
C33_FlaggedRowsInViews ==
    batchOut # NULL =>
        LET table == StoredResults
            limit == Cardinality(table)
            liquid(r) == r.volume # NULL /\ r.volume[1] > liquidity_floor
        IN  \A r \in table :
                /\ (r.is_near_high = Some(1) /\ liquid(r)) =>
                        \A ans \in get_near_52w_high(table, 500, limit, NULL) :
                            \E i \in 1..Len(ans) : ans[i] = r
                /\ (r.is_near_low = Some(1) /\ liquid(r)) =>
                        \A ans \in get_near_52w_low(table, 1000, limit, NULL) :
                            \E i \in 1..Len(ans) : ans[i] = r

-----------------------------------------------------------------------------
(* More claims about the scheduler *)

\* C34 (as amended), under SpecLoop: _run_scan clears _scan_in_progress
\* whether run_scan returned or raised; a scan that raised leaves _last_scan
\* as it was, and _last_scan changes only when a scan has returned; so at its
\* next test after a failed scan the loop starts a scan exactly when no scan
\* is in progress and _last_scan is None or a full interval older than the
\* clock: at once after a failed scheduled scan, unless a manual scan is
\* running or has completed in between, and not before the interval is over
\* after a failed manual scan that followed a completed scan.
C34_FailedScanRetried ==
    [][/\ \A who \in {"current", "worker"} :
            /\ RunFinally(who) => ~_scan_in_progress'
            /\ RunRaise(who) => (_last_scan' = _last_scan /\ At(who, "finally")')
       /\ _last_scan' # _last_scan =>
            (_last_scan' = Some(now) /\ \E who \in {"current", "worker"} : RunLast(who))
       /\ (LoopCheckNow("current") /\ _running /\ outcome = Some("raised")) =>
            (_thread' = Some("enter") <=> (~_scan_in_progress /\ IntervalElapsed))]_vars

\* C34 witness: the first scan of the loop raised, no manual scan was asked
\* for, and the loop has started its second scan before the clock moved
C34_Witness ==
    /\ outcome = Some("raised")
    /\ returned = NULL
    /\ scans = 2
    /\ _thread = Some("enter")
    /\ ~_scan_in_progress
    /\ _last_scan = NULL
    /\ now = 0

\* C34 as stated: at its next test after a failed scan, no scan being in
\* progress, the loop starts another scan
C34_Original ==
    [][(/\ LoopCheckNow("current") /\ _running
        /\ outcome = Some("raised") /\ ThreadsAt(InRunScan) = 0) =>
            _thread' = Some("enter")]_vars

\* the loop threads that have not ended: self._thread and the earlier ones
LoopThreads == BagCardinality(orphans) + (IF LoopAlive THEN 1 ELSE 0)

\* C35, under Spec: at most one loop thread is alive, for every sequence of
\* start() and stop() calls.  stop() gives up its join after five seconds and
\* start() tests only _running, so a start() after such a stop() adds a loop
\* to the one that is still alive, which then sees _running true again.
C35_OneLoopThread == LoopThreads <= 1

\* stop() has been called after a start(), and start() was not called since
StopCalled == _thread # NULL /\ ~_running

\* C36, under Spec: once stop() has been called and start() not since, no
\* scan is started, by the loop or by trigger_scan_now().
\* trigger_scan_now() tests _scan_in_progress only.
C36_NoScanAfterStop == [][StopCalled => scans' = scans]_vars

\* C39, under Spec: get_status() reports scan_in_progress true exactly while
\* some execution of _run_scan is between setting and clearing the flag, and
\* last_scan none or a reading of the clock.  When two executions overlap,
\* the first to finish clears the flag under the other.
C39_StatusIsActual ==
    /\ get_status.scan_in_progress <=> ThreadsAt(InRunScan) >= 1
    /\ get_status.last_scan # NULL => get_status.last_scan[1] <= now

====
